---- MODULE Spec2Model ----
(***************************************************************************)
(* The salary dashboard's data layer (salary-service.ts) and the part of    *)
(* StatsPage that drives it: fetchSalaryEntries with its normalisation and  *)
(* detection pass, filterEntriesForCalculations, computeSalaryMetrics,      *)
(* computeMedian and getAvailableYearsSinceGraduation, applied to bounded   *)
(* collections of salary rows; StatsPage's filter handlers and effect; and  *)
(* concurrent invocations of its queryFn.                                   *)
(*                                                                          *)
(* Conventions.  A JavaScript array is a sequence; `undefined` and `null`   *)
(* are the empty tuple, and a value that is a number or null is <<n>> or    *)
(* the empty tuple where both occur; a message built from a template is the *)
(* tuple of its literal text and the values interpolated into it            *)
(* (toLocaleString is injective on integers and is kept as the number).     *)
(* Salaries are the integers of the `salary integer` column, or NaN, so a   *)
(* comparison with M / 3 or M * 2.5 is the exact comparison of the          *)
(* cross-multiplied integers.                                               *)
(***************************************************************************)
EXTENDS Integers, Sequences, FiniteSets, TLC

VARIABLES
    remote,        \* the store: whether the client is configured, and its answer
    rows,          \* the rows the remote query returns (created_at descending)
    engine,        \* the order the runtime's sort leaves an array in that holds a NaN
    filters,       \* the SalaryFilters object of the call (StatsPage's filters state)
    pc,            \* how far the query cycle has run
    query,         \* the query the last fetch awaited
    queries,       \* the remote queries issued so far
    thrown,        \* the error fetchSalaryEntries threw, if it threw
    entries,       \* fetchSalaryEntries' result: the annotated rows
    eligible,      \* filterEntriesForCalculations(entries, filters)
    metrics,       \* computeSalaryMetrics(entries, filters)
    medianSalary,  \* computeMedian(eligible)
    availableYears,\* StatsPage's availableYears, of the all-alumni query
    redetected,    \* detectOutliers run again over annotated entries
    buckets,       \* the objects of the module's SALARY_BUCKETS array
    calls,         \* the invocations of StatsPage's queryFn, each with its locals
    effect,        \* StatsPage's effect on filters.participantType is pending
    clicked        \* the arguments of the handleToggleSpecificEntry call just handled

vars == <<remote, rows, engine, filters, pc, query, queries, thrown, entries, eligible,
          metrics, medianSalary, availableYears, redetected, buckets, calls, effect,
          clicked>>

----------------------------------------------------------------------------
(* types/salary.ts *)

formations == {"Master", "DIC", "DIT", "TELECOM"}
specialties == {"SSI", "IABD", "INFO"}
contractTypes == {"Stage", "Alternance", "CDD", "CDI", "Prestation de service"}
participantTypes == {"Etudiant", "Alumni"}

undefined == <<>>
null == <<>>

\* Number.NaN: the result of Number(x) for a text that is no numeral.  It is
\* kept apart from the natural numbers the store can hold, and every operator
\* that computes with a number tests for it before any arithmetic.
NaN == -1

\* a < b and a > b of JavaScript numbers: false when either side is NaN
Less(a, b) == a # NaN /\ b # NaN /\ a < b
Greater(a, b) == a # NaN /\ b # NaN /\ a > b
\* a * b of JavaScript numbers
Times(a, b) == IF a = NaN \/ b = NaN THEN NaN ELSE a * b

----------------------------------------------------------------------------
(* salary-service.ts: constants *)

ABSOLUTE_MIN == 50000
ABSOLUTE_MAX == 2000000
\* MEDIAN_MULTIPLIER is 2.5 = MEDIAN_MULTIPLIER_NUM / MEDIAN_MULTIPLIER_DEN
MEDIAN_MULTIPLIER_NUM == 5
MEDIAN_MULTIPLIER_DEN == 2
MEDIAN_DIVIDER == 3
MIN_GROUP_SIZE == 3

\* variant of CONTRACT_LIMITS whose CDI ceiling is that of a CDD
CONTRACT_LIMITS_TightCDI(contractType) ==
    CASE contractType = "Stage" -> <<500000>>
      [] contractType = "Alternance" -> <<600000>>
      [] contractType = "CDD" -> <<1500000>>
      [] contractType = "CDI" -> <<1500000>>
      [] contractType = "Prestation de service" -> <<2000000>>
      [] OTHER -> undefined

CONTRACT_LIMITS(contractType) ==
    CASE contractType = "Stage" -> <<500000>>
      [] contractType = "Alternance" -> <<600000>>
      [] contractType = "CDD" -> <<1500000>>
      [] contractType = "CDI" -> <<2000000>>
      [] contractType = "Prestation de service" -> <<2000000>>
      [] OTHER -> undefined

\* max |-> 0 with bounded |-> FALSE stands for Number.POSITIVE_INFINITY
SALARY_BUCKETS ==
    << [label |-> "< 100k", min |-> 0, max |-> 99999, bounded |-> TRUE],
       [label |-> "100k - 199k", min |-> 100000, max |-> 199999, bounded |-> TRUE],
       [label |-> "200k - 299k", min |-> 200000, max |-> 299999, bounded |-> TRUE],
       [label |-> "300k - 399k", min |-> 300000, max |-> 399999, bounded |-> TRUE],
       [label |-> "400k - 499k", min |-> 400000, max |-> 499999, bounded |-> TRUE],
       [label |-> "500k - 599k", min |-> 500000, max |-> 599999, bounded |-> TRUE],
       [label |-> "600k - 699k", min |-> 600000, max |-> 699999, bounded |-> TRUE],
       [label |-> "700k - 799k", min |-> 700000, max |-> 799999, bounded |-> TRUE],
       [label |-> ">= 800k", min |-> 800000, max |-> 0, bounded |-> FALSE] >>

----------------------------------------------------------------------------
(* JavaScript helpers *)

\* Math.round(num / den) for den > 0: the nearest integer, a half going up
MathRound(num, den) == (2 * num + den) \div (2 * den)

\* variant of Spread that leaves an earlier reason in place when none is given
Spread_KeepReason(entry, flag, reason) ==
    [f \in DOMAIN entry \cup {"is_flagged_outlier", "outlier_reason"} |->
        IF f = "is_flagged_outlier" THEN flag
        ELSE IF f = "outlier_reason"
             THEN IF reason = <<>> /\ f \in DOMAIN entry THEN entry[f] ELSE reason
        ELSE entry[f]]

\* { ...entry, is_flagged_outlier: flag, outlier_reason: reason }
Spread(entry, flag, reason) ==
    [f \in DOMAIN entry \cup {"is_flagged_outlier", "outlier_reason"} |->
        IF f = "is_flagged_outlier" THEN flag
        ELSE IF f = "outlier_reason" THEN reason
        ELSE entry[f]]

\* the truthiness of entry.is_flagged_outlier
IsFlagged(entry) ==
    "is_flagged_outlier" \in DOMAIN entry /\ entry.is_flagged_outlier = TRUE

\* one step of the stable ascending sort by salary: e goes after every element
\* that is not greater
InsertBySalary(sorted, e) ==
    LET k == Cardinality({j \in 1..Len(sorted) : sorted[j].salary <= e.salary})
    IN  SubSeq(sorted, 1, k) \o <<e>> \o SubSeq(sorted, k + 1, Len(sorted))

RECURSIVE SortBySalary(_)
\* the stable ascending sort of salaries that are all numbers other than NaN
SortBySalary(s) ==
    IF Len(s) = 0 THEN <<>>
    ELSE InsertBySalary(SortBySalary(SubSeq(s, 1, Len(s) - 1)), s[Len(s)])

\* [...entries].sort((a, b) => a.salary - b.salary).  With a NaN among two or
\* more salaries the comparator returns NaN, it is no consistent comparator, and
\* the order of the result is left to the runtime: engine holds the order the
\* runtime produces for an array of each length.
SortedBySalary(s) ==
    IF Len(s) >= 2 /\ \E i \in 1..Len(s) : s[i].salary = NaN
    THEN [i \in 1..Len(s) |-> s[engine[Len(s)][i]]]
    ELSE SortBySalary(s)

----------------------------------------------------------------------------
(* salary-service.ts: the median and the outlier detector *)

\* variant of computeMedian that takes the middle of the input order
computeMedian_Unsorted(es) ==
    IF Len(es) = 0 THEN 0
    ELSE LET sorted == [i \in 1..Len(es) |-> es[i].salary]
             middle == Len(sorted) \div 2
         IN  IF Len(sorted) % 2 = 0
             THEN MathRound(sorted[middle] + sorted[middle + 1], 2)
             ELSE MathRound(sorted[middle + 1], 1)

\* sorted[k] of the code is sorted[k + 1] here (sequences start at 1)
computeMedian(es) ==
    IF Len(es) = 0 THEN 0
    ELSE LET bySalary == SortedBySalary(es)
             sorted == [i \in 1..Len(bySalary) |-> bySalary[i].salary]
             middle == Len(sorted) \div 2
         IN  IF Len(sorted) % 2 = 0
             THEN IF sorted[middle] = NaN \/ sorted[middle + 1] = NaN THEN NaN
                  ELSE MathRound(sorted[middle] + sorted[middle + 1], 2)
             ELSE IF sorted[middle + 1] = NaN THEN NaN
                  ELSE MathRound(sorted[middle + 1], 1)

\* variant of isAbsoluteOutlier that tests the contract ceiling before the global one
isAbsoluteOutlier_ContractFirst(salary, contractType) ==
    LET contractLimit == CONTRACT_LIMITS(contractType)
    IN  IF salary < ABSOLUTE_MIN
        THEN [isOutlier |-> TRUE,
              reason |-> <<"Valeur trop faible (< # F)", ABSOLUTE_MIN>>]
        ELSE IF contractLimit # undefined /\ salary > contractLimit[1]
        THEN [isOutlier |-> TRUE,
              reason |-> <<"Valeur improbable pour un # (> # F)",
                           contractType, contractLimit[1]>>]
        ELSE IF salary > ABSOLUTE_MAX
        THEN [isOutlier |-> TRUE,
              reason |-> <<"Valeur trop elevee (> # F)", ABSOLUTE_MAX>>]
        ELSE [isOutlier |-> FALSE, reason |-> undefined]

isAbsoluteOutlier(salary, contractType) ==
    LET contractLimit == CONTRACT_LIMITS(contractType)
    IN  IF Less(salary, ABSOLUTE_MIN)
        THEN [isOutlier |-> TRUE,
              reason |-> <<"Valeur trop faible (< # F)", ABSOLUTE_MIN>>]
        ELSE IF Greater(salary, ABSOLUTE_MAX)
        THEN [isOutlier |-> TRUE,
              reason |-> <<"Valeur trop elevee (> # F)", ABSOLUTE_MAX>>]
        ELSE IF contractLimit # undefined /\ Greater(salary, contractLimit[1])
        THEN [isOutlier |-> TRUE,
              reason |-> <<"Valeur improbable pour un # (> # F)",
                           contractType, contractLimit[1]>>]
        ELSE [isOutlier |-> FALSE, reason |-> undefined]

\* variant of isRelativeOutlier whose thresholds are themselves outliers
isRelativeOutlier_Inclusive(salary, groupMedian) ==
    IF salary * MEDIAN_DIVIDER <= groupMedian
    THEN [isOutlier |-> TRUE,
          reason |-> <<"Tres en-dessous de la mediane du groupe (# F)", groupMedian>>]
    ELSE IF salary * MEDIAN_MULTIPLIER_DEN >= groupMedian * MEDIAN_MULTIPLIER_NUM
    THEN [isOutlier |-> TRUE,
          reason |-> <<"Tres au-dessus de la mediane du groupe (# F)", groupMedian>>]
    ELSE [isOutlier |-> FALSE, reason |-> undefined]

\* variant of isRelativeOutlier whose upper threshold divides the median by 2.5
isRelativeOutlier_DividedCeiling(salary, groupMedian) ==
    IF Less(Times(salary, MEDIAN_DIVIDER), groupMedian)
    THEN [isOutlier |-> TRUE,
          reason |-> <<"Tres en-dessous de la mediane du groupe (# F)", groupMedian>>]
    ELSE IF Greater(Times(salary, MEDIAN_MULTIPLIER_NUM),
                    Times(groupMedian, MEDIAN_MULTIPLIER_DEN))
    THEN [isOutlier |-> TRUE,
          reason |-> <<"Tres au-dessus de la mediane du groupe (# F)", groupMedian>>]
    ELSE [isOutlier |-> FALSE, reason |-> undefined]

\* salary < groupMedian / 3 and salary > groupMedian * 2.5, cross-multiplied
isRelativeOutlier(salary, groupMedian) ==
    IF Less(Times(salary, MEDIAN_DIVIDER), groupMedian)
    THEN [isOutlier |-> TRUE,
          reason |-> <<"Tres en-dessous de la mediane du groupe (# F)", groupMedian>>]
    ELSE IF Greater(Times(salary, MEDIAN_MULTIPLIER_DEN),
                    Times(groupMedian, MEDIAN_MULTIPLIER_NUM))
    THEN [isOutlier |-> TRUE,
          reason |-> <<"Tres au-dessus de la mediane du groupe (# F)", groupMedian>>]
    ELSE [isOutlier |-> FALSE, reason |-> undefined]

\* variant of calculateGroupMedian that accepts a group of two
calculateGroupMedian_PairOnly(es, formation, speciality, contractType) ==
    LET groupEntries ==
            SelectSeq(es, LAMBDA entry :
                /\ entry.formation = formation
                /\ entry.speciality = speciality
                /\ entry.contract_type = contractType)
    IN  IF Len(groupEntries) < MIN_GROUP_SIZE - 1
        THEN null
        ELSE <<computeMedian(groupEntries)>>

\* variant of calculateGroupMedian that groups by specialty and contract only
calculateGroupMedian_AnyFormation(es, formation, speciality, contractType) ==
    LET groupEntries ==
            SelectSeq(es, LAMBDA entry :
                /\ entry.speciality = speciality
                /\ entry.contract_type = contractType)
    IN  IF Len(groupEntries) < MIN_GROUP_SIZE
        THEN null
        ELSE <<computeMedian(groupEntries)>>

\* variant of calculateGroupMedian that leaves flagged entries out of the group
calculateGroupMedian_SkipFlagged(es, formation, speciality, contractType) ==
    LET groupEntries ==
            SelectSeq(es, LAMBDA entry :
                /\ entry.formation = formation
                /\ entry.speciality = speciality
                /\ entry.contract_type = contractType
                /\ ~IsFlagged(entry))
    IN  IF Len(groupEntries) < MIN_GROUP_SIZE
        THEN null
        ELSE <<computeMedian(groupEntries)>>

\* the result is null, or <<m>> for the number m
calculateGroupMedian(es, formation, speciality, contractType) ==
    LET groupEntries ==
            SelectSeq(es, LAMBDA entry :
                /\ entry.formation = formation
                /\ entry.speciality = speciality
                /\ entry.contract_type = contractType)
    IN  IF Len(groupEntries) < MIN_GROUP_SIZE
        THEN null
        ELSE <<computeMedian(groupEntries)>>

\* variant of detectOutliers that runs the relative check first
detectOutliers_RelativeFirst(es) ==
    [i \in 1..Len(es) |->
        LET entry == es[i]
            absoluteCheck == isAbsoluteOutlier(entry.salary, entry.contract_type)
            groupMedian == calculateGroupMedian(es, entry.formation,
                               entry.speciality, entry.contract_type)
            relativeCheck == isRelativeOutlier(entry.salary, groupMedian[1])
        IN  IF groupMedian # null /\ relativeCheck.isOutlier
            THEN Spread(entry, TRUE, relativeCheck.reason)
            ELSE IF absoluteCheck.isOutlier
            THEN Spread(entry, TRUE, absoluteCheck.reason)
            ELSE Spread(entry, FALSE, undefined)]

detectOutliers(es) ==
    [i \in 1..Len(es) |->
        LET entry == es[i]
            absoluteCheck == isAbsoluteOutlier(entry.salary, entry.contract_type)
            groupMedian == calculateGroupMedian(es, entry.formation,
                               entry.speciality, entry.contract_type)
            relativeCheck == isRelativeOutlier(entry.salary, groupMedian[1])
        IN  IF absoluteCheck.isOutlier
            THEN Spread(entry, TRUE, absoluteCheck.reason)
            ELSE IF groupMedian # null /\ relativeCheck.isOutlier
            THEN Spread(entry, TRUE, relativeCheck.reason)
            ELSE Spread(entry, FALSE, undefined)]

----------------------------------------------------------------------------
(* salary-service.ts: fetchSalaryEntries *)

\* the numerals among the texts a row of the model can hold
Numerals == ("0" :> 0) @@ ("3" :> 3) @@ ("250000" :> 250000)

\* Number(text): the number of a numeral, 0 for the empty text, NaN for
\* any other text
NumberOf(text) ==
    IF text \in DOMAIN Numerals THEN Numerals[text]
    ELSE IF text = "" THEN 0
    ELSE NaN

\* A value of a loosely typed column is given by three things: row.typeOf
\* holds its typeof (with null told apart), the column itself holds its number
\* when it is a number, and row.text holds its text when it is a string.
\* years_since_graduation is null or <<n>> for the number n.
NormalizedYears(row) ==
    IF row.typeOf.years_since_graduation = "number"
    THEN row.years_since_graduation
    ELSE IF row.typeOf.years_since_graduation \in {"null", "undefined"}
    THEN null
    ELSE LET parsed == NumberOf(row.text.years_since_graduation)
         IN  IF parsed = NaN THEN null ELSE <<parsed>>

\* typeof row.salary === "string" ? Number(row.salary) : row.salary
NormalizedSalary(row) ==
    IF row.typeOf.salary = "string" THEN NumberOf(row.text.salary) ELSE row.salary

\* one row of (data ?? []).map(...)
NormalizeRow(row) ==
    [f \in DOMAIN row \ {"typeOf", "text"} |->
        IF f = "years_since_graduation" THEN NormalizedYears(row)
        ELSE IF f = "salary" THEN NormalizedSalary(row)
        ELSE row[f]]

\* the truthiness of an optional text of the filters: set, and not empty
IsSupplied(fs, key) == key \in DOMAIN fs /\ fs[key] # ""

\* filters.selectedYearsSinceGraduation, [] when the key is absent; the array
\* is kept as the set of its elements (it is read through length and handed to
\* the store's membership test)
SelectedYears(fs) ==
    IF "selectedYearsSinceGraduation" \in DOMAIN fs
    THEN fs.selectedYearsSinceGraduation ELSE {}

\* the filter keys that become an equality constraint, with their columns
EqualityColumns ==
    [formation |-> "formation", contractType |-> "contract_type",
     speciality |-> "speciality", participantType |-> "participant_type"]

\* variant of BuildQuery that also asks the store to leave out flagged rows
BuildQuery_Preferences(fs) ==
    [from |-> "salaries", select |-> "*",
     order |-> [column |-> "created_at", ascending |-> FALSE],
     eq |-> {<<EqualityColumns[key], fs[key]>> :
                key \in {k \in DOMAIN EqualityColumns : IsSupplied(fs, k)}}
            \cup {<<"is_flagged_outlier", "false">> :
                     k \in {j \in DOMAIN fs : j = "excludeOutliers"}},
     in |-> IF SelectedYears(fs) # {}
            THEN <<[column |-> "years_since_graduation", values |-> SelectedYears(fs)]>>
            ELSE null]

\* the query of fetchSalaryEntries: from, select and order, then one eq for
\* each truthy filter and one in for a non-empty selection of years
BuildQuery(fs) ==
    [from |-> "salaries", select |-> "*",
     order |-> [column |-> "created_at", ascending |-> FALSE],
     eq |-> {<<EqualityColumns[key], fs[key]>> :
                key \in {k \in DOMAIN EqualityColumns : IsSupplied(fs, k)}},
     in |-> IF SelectedYears(fs) # {}
            THEN <<[column |-> "years_since_graduation", values |-> SelectedYears(fs)]>>
            ELSE null]

\* a row of the table satisfies the constraints of a query: every eq, and the
\* in (which no row whose column is null satisfies)
Satisfies(row, q) ==
    /\ \A c \in q.eq : c[1] \in DOMAIN row /\ row[c[1]] = c[2]
    /\ q.in # null =>
           /\ row[q.in[1].column] # null
           /\ row[q.in[1].column][1] \in q.in[1].values

\* the rows in the order the query asks for: created_at is a timestamp of the
\* row's insertion and no two rows share one
Ordered(rs, order) ==
    [k \in 1..Len(rs) |->
        rs[CHOOSE i \in 1..Len(rs) :
              Cardinality({j \in 1..Len(rs) :
                              IF order.ascending
                              THEN rs[j][order.column] < rs[i][order.column]
                              ELSE rs[j][order.column] > rs[i][order.column]}) = k - 1]]

\* the store's answer to `await query`: its error, or the rows of the table
\* that satisfy the query, in the order the query asks for
Await(store, q) ==
    [error |-> store.error,
     data |-> IF store.error # null \/ store.data = null THEN null
              ELSE <<Ordered(SelectSeq(store.data[1], LAMBDA row : Satisfies(row, q)),
                             q.order)>>]

\* variant of fetchSalaryEntries that answers a remote error with no entries
fetchSalaryEntries_Swallow(store, fs) ==
    LET answer == Await(store, BuildQuery(fs))
    IN  IF ~store.configured \/ answer.error # null \/ answer.data = null
        THEN [thrown |-> null, returned |-> <<<<>>>>, query |-> <<BuildQuery(fs)>>,
              queries |-> 1, detections |-> 0]
        ELSE [thrown |-> null,
              returned |-> <<detectOutliers([i \in 1..Len(answer.data[1]) |->
                                                NormalizeRow(answer.data[1][i])])>>,
              query |-> <<BuildQuery(fs)>>, queries |-> 1, detections |-> 1]

\* the outcome of one call: the error thrown or the array returned (each null
\* or a one-element tuple), the query awaited, and how many remote queries and
\* detection passes the call ran
fetchSalaryEntries(store, fs) ==
    IF ~store.configured
    THEN [thrown |-> <<[message |-> "Supabase client not configured."]>>,
          returned |-> null, query |-> null, queries |-> 0, detections |-> 0]
    ELSE LET answer == Await(store, BuildQuery(fs))
         IN  IF answer.error # null
             THEN [thrown |-> <<[message |-> answer.error[1].message]>>,
                   returned |-> null, query |-> <<BuildQuery(fs)>>,
                   queries |-> 1, detections |-> 0]
             ELSE LET data == IF answer.data = null THEN <<>> ELSE answer.data[1]
                      mapped == [i \in 1..Len(data) |-> NormalizeRow(data[i])]
                  IN  [thrown |-> null, returned |-> <<detectOutliers(mapped)>>,
                       query |-> <<BuildQuery(fs)>>, queries |-> 1, detections |-> 1]

RECURSIVE SortAscending(_)
\* Array.from(set).sort((a, b) => a - b)
SortAscending(set) ==
    IF set = {} THEN <<>>
    ELSE LET least == CHOOSE n \in set : \A m \in set : n <= m
         IN  <<least>> \o SortAscending(set \ {least})

\* variant of getAvailableYearsSinceGraduation that keeps a year when it is truthy
getAvailableYearsSinceGraduation_Truthy(es) ==
    LET uniqueYears == {es[i].years_since_graduation[1] :
                           i \in {j \in 1..Len(es) :
                                     /\ es[j].years_since_graduation # null
                                     /\ es[j].years_since_graduation[1] # 0}}
    IN  SortAscending(uniqueYears)

\* a Set of the years that are numbers, then Array.from(set).sort(...)
getAvailableYearsSinceGraduation(es) ==
    LET uniqueYears == {es[i].years_since_graduation[1] :
                           i \in {j \in 1..Len(es) : es[j].years_since_graduation # null}}
    IN  SortAscending(uniqueYears)

----------------------------------------------------------------------------
(* salary-service.ts: the filter engine *)

\* the truthiness of filters.excludeOutliers
ExcludesOutliers(fs) ==
    "excludeOutliers" \in DOMAIN fs /\ fs.excludeOutliers = TRUE

\* filters.excludeSpecificEntries, [] when the key is absent; the array is kept
\* as the set of its elements (it is only read through length and includes)
ExcludedIds(fs) ==
    IF "excludeSpecificEntries" \in DOMAIN fs THEN fs.excludeSpecificEntries ELSE {}

\* variant of filterOutliers that keeps flagged entries whatever the toggle
filterOutliers_KeepAll(es, fs) == es

\* the first filter of filterEntriesForCalculations
filterOutliers(es, fs) ==
    IF ExcludesOutliers(fs)
    THEN SelectSeq(es, LAMBDA entry : ~IsFlagged(entry))
    ELSE es

\* variant of filterSpecific that removes an excluded entry only when it is unflagged
filterSpecific_OnlyUnflagged(es, fs) ==
    IF ExcludedIds(fs) # {}
    THEN SelectSeq(es, LAMBDA entry :
             ~(entry.id \in ExcludedIds(fs)) \/ IsFlagged(entry))
    ELSE es

\* the second filter of filterEntriesForCalculations
filterSpecific(es, fs) ==
    IF ExcludedIds(fs) # {}
    THEN SelectSeq(es, LAMBDA entry : ~(entry.id \in ExcludedIds(fs)))
    ELSE es

filterEntriesForCalculations(es, fs) ==
    filterSpecific(filterOutliers(es, fs), fs)

----------------------------------------------------------------------------
(* salary-service.ts: the metrics aggregator *)

EmptyMap == [k \in {} |-> 0]

\* map[key] = value
Put(map, key, value) ==
    [k \in DOMAIN map \cup {key} |-> IF k = key THEN value ELSE map[k]]

\* variant of AddToSum that counts a later entry of a key and leaves its amount out
AddToSum_CountOnly(map, key, amount) ==
    IF key \in DOMAIN map
    THEN Put(map, key, [total |-> map[key].total, count |-> map[key].count + 1])
    ELSE Put(map, key, [total |-> amount, count |-> 1])

\* map[key] = map[key] || { total: 0, count: 0 }; total += amount; count += 1
AddToSum(map, key, amount) ==
    LET old == IF key \in DOMAIN map THEN map[key] ELSE [total |-> 0, count |-> 0]
    IN  Put(map, key, [total |-> old.total + amount, count |-> old.count + 1])

\* variant of AddToCount that counts a key once however often it recurs
AddToCount_Once(map, key) == Put(map, key, 1)

\* map[key] = (map[key] ?? 0) + 1
AddToCount(map, key) ==
    Put(map, key, (IF key \in DOMAIN map THEN map[key] ELSE 0) + 1)

\* the parts of a name between its hyphens: no formation and no specialty of
\* types/salary.ts holds a hyphen, so each is its own single part
HyphenParts(name) == <<name>>

\* `${entry.speciality}-${entry.formation}`, kept as key.split("-")
comboKeyOf(entry) == HyphenParts(entry.speciality) \o HyphenParts(entry.formation)

\* safeSalary >= range.min && safeSalary <= range.max
InRange(range, safeSalary) ==
    safeSalary >= range.min /\ (range.bounded => safeSalary <= range.max)

\* variant of CountInBucket whose lower limits are exclusive
CountInBucket_Exclusive(rangeCounts, safeSalary) ==
    LET hits == {k \in 1..Len(rangeCounts) :
                    /\ safeSalary > rangeCounts[k].min
                    /\ (rangeCounts[k].bounded => safeSalary <= rangeCounts[k].max)}
    IN  IF hits = {} THEN rangeCounts
        ELSE LET first == CHOOSE k \in hits : \A j \in hits : k <= j
             IN  [rangeCounts EXCEPT ![first].count = @ + 1]

\* rangeCounts.find(...), then bucket.count += 1 when one is found
CountInBucket(rangeCounts, safeSalary) ==
    LET hits == {k \in 1..Len(rangeCounts) : InRange(rangeCounts[k], safeSalary)}
    IN  IF hits = {} THEN rangeCounts
        ELSE LET first == CHOOSE k \in hits : \A j \in hits : k <= j
             IN  [rangeCounts EXCEPT ![first].count = @ + 1]

\* comboBuckets keeps its keys in insertion order (Object.entries)
AddToCombo(comboBuckets, key, amount) ==
    LET at == {k \in 1..Len(comboBuckets) : comboBuckets[k].key = key}
    IN  IF at = {}
        THEN Append(comboBuckets, [key |-> key, total |-> amount, count |-> 1])
        ELSE LET k == CHOOSE k \in at : TRUE
             IN  [comboBuckets EXCEPT ![k].total = @ + amount, ![k].count = @ + 1]

\* variant of NewRangeCounts that counts in the module's own objects
NewRangeCounts_Aliased(module) ==
    [objects |-> [k \in 1..Len(module) |->
                     [f \in DOMAIN module[k] \cup {"count"} |->
                         IF f \in DOMAIN module[k] THEN module[k][f] ELSE 0]],
     fresh |-> FALSE]

\* SALARY_BUCKETS.map((bucket) => ({ ...bucket, count: 0 })): one new object
\* for each object of the module's array, with the fields of that object as
\* they are at the call and a count of 0.  fresh tells that the objects are
\* not those of the module's array.
NewRangeCounts(module) ==
    [objects |-> [k \in 1..Len(module) |->
                     [f \in DOMAIN module[k] \cup {"count"} |->
                         IF f = "count" THEN 0 ELSE module[k][f]]],
     fresh |-> TRUE]

\* variant of InitialSums that starts every formation at a sum of 0
InitialSums_Zeroed(module) ==
    [sumByFormation |-> [f \in formations |-> [total |-> 0, count |-> 0]],
     sumBySpecialty |-> EmptyMap,
     sumByContract |-> EmptyMap, countByFormation |-> EmptyMap,
     countBySpecialty |-> EmptyMap, countByParticipantType |-> EmptyMap,
     rangeCounts |-> NewRangeCounts(module).objects,
     comboBuckets |-> <<>>]

\* the accumulators before the loop
InitialSums(module) ==
    [sumByFormation |-> EmptyMap, sumBySpecialty |-> EmptyMap,
     sumByContract |-> EmptyMap, countByFormation |-> EmptyMap,
     countBySpecialty |-> EmptyMap, countByParticipantType |-> EmptyMap,
     rangeCounts |-> NewRangeCounts(module).objects,
     comboBuckets |-> <<>>]

\* variant of AccumulateEntry that passes over an entry whose salary is NaN
AccumulateEntry_SkipNaN(acc, entry) ==
    IF entry.salary = NaN THEN acc
    ELSE [sumByFormation |-> AddToSum(acc.sumByFormation, entry.formation, entry.salary),
          sumBySpecialty |-> AddToSum(acc.sumBySpecialty, entry.speciality, entry.salary),
          sumByContract |-> AddToSum(acc.sumByContract, entry.contract_type, entry.salary),
          countByFormation |-> AddToCount(acc.countByFormation, entry.formation),
          countBySpecialty |-> AddToCount(acc.countBySpecialty, entry.speciality),
          countByParticipantType |->
              AddToCount(acc.countByParticipantType, entry.participant_type),
          rangeCounts |-> CountInBucket(acc.rangeCounts, entry.salary),
          comboBuckets |-> AddToCombo(acc.comboBuckets, comboKeyOf(entry), entry.salary)]

\* one iteration of entriesForCalculations.forEach; Number(salary) || 0 is 0
\* for NaN and for 0 and the salary itself for every other number
AccumulateEntry(acc, entry) ==
    LET safeSalary == IF entry.salary = NaN \/ entry.salary = 0 THEN 0 ELSE entry.salary
    IN  [sumByFormation |-> AddToSum(acc.sumByFormation, entry.formation, safeSalary),
         sumBySpecialty |-> AddToSum(acc.sumBySpecialty, entry.speciality, safeSalary),
         sumByContract |-> AddToSum(acc.sumByContract, entry.contract_type, safeSalary),
         countByFormation |-> AddToCount(acc.countByFormation, entry.formation),
         countBySpecialty |-> AddToCount(acc.countBySpecialty, entry.speciality),
         countByParticipantType |->
             AddToCount(acc.countByParticipantType, entry.participant_type),
         rangeCounts |-> CountInBucket(acc.rangeCounts, safeSalary),
         comboBuckets |-> AddToCombo(acc.comboBuckets, comboKeyOf(entry), safeSalary)]

RECURSIVE Accumulate(_, _)
\* entriesForCalculations.forEach(...)
Accumulate(acc, es) ==
    IF Len(es) = 0 THEN acc
    ELSE Accumulate(AccumulateEntry(acc, Head(es)), Tail(es))

\* variant of AverageOf that truncates the quotient
AverageOf_Truncated(sum) ==
    IF sum.count # 0 THEN sum.total \div sum.count ELSE 0

\* value.count ? Math.round(value.total / value.count) : 0
AverageOf(sum) ==
    IF sum.count # 0 THEN MathRound(sum.total, sum.count) ELSE 0

\* Object.entries(sums).reduce(...)
AveragesOf(sums) == [k \in DOMAIN sums |-> AverageOf(sums[k])]

\* variant of InsertByDate that sorts oldest first
InsertByDate_Ascending(sorted, e) ==
    LET k == Cardinality({j \in 1..Len(sorted) : sorted[j].created_at <= e.created_at})
    IN  SubSeq(sorted, 1, k) \o <<e>> \o SubSeq(sorted, k + 1, Len(sorted))

\* one step of the stable sort by created_at descending
InsertByDate(sorted, e) ==
    LET k == Cardinality({j \in 1..Len(sorted) : sorted[j].created_at >= e.created_at})
    IN  SubSeq(sorted, 1, k) \o <<e>> \o SubSeq(sorted, k + 1, Len(sorted))

RECURSIVE SortByDateDesc(_)
\* [...entries].sort((a, b) => getTime(b.created_at) - getTime(a.created_at))
SortByDateDesc(s) ==
    IF Len(s) = 0 THEN <<>>
    ELSE InsertByDate(SortByDateDesc(SubSeq(s, 1, Len(s) - 1)), s[Len(s)])

\* the fields latestEntries keeps of an entry
LatestEntryFields ==
    {"id", "formation", "speciality", "contract_type", "salary", "participant_type",
     "created_at", "job_title", "job_description", "years_since_graduation",
     "is_flagged_outlier", "outlier_reason"}

LatestEntryOf(entry) ==
    [f \in LatestEntryFields |-> IF f \in DOMAIN entry THEN entry[f] ELSE undefined]

\* computeSalaryMetrics run where the module's SALARY_BUCKETS holds `module`
computeSalaryMetricsIn(module, es, fs) ==
    LET entriesForCalculations == filterEntriesForCalculations(es, fs)
        acc == Accumulate(InitialSums(module), entriesForCalculations)
        sorted == SortByDateDesc(es)
    IN  [totalParticipants |-> Len(entriesForCalculations),
         averageByFormation |-> AveragesOf(acc.sumByFormation),
         averageBySpecialty |-> AveragesOf(acc.sumBySpecialty),
         averageByContract |-> AveragesOf(acc.sumByContract),
         countByParticipantType |-> acc.countByParticipantType,
         salariesByRange |->
             [k \in 1..Len(acc.rangeCounts) |->
                 [label |-> acc.rangeCounts[k].label,
                  count |-> acc.rangeCounts[k].count]],
         countByFormation |-> acc.countByFormation,
         countBySpecialty |-> acc.countBySpecialty,
         averageBySpecialtyAndFormation |->
             [k \in 1..Len(acc.comboBuckets) |->
                 [speciality |-> acc.comboBuckets[k].key[1],
                  formation |-> acc.comboBuckets[k].key[2],
                  averageSalary |-> AverageOf(acc.comboBuckets[k])]],
         latestEntries |-> [k \in 1..Len(sorted) |-> LatestEntryOf(sorted[k])]]

\* a call of computeSalaryMetrics: it reads the module's array as earlier calls
\* left it
computeSalaryMetrics(es, fs) == computeSalaryMetricsIn(buckets, es, fs)

\* the objects of the module's array after a call of computeSalaryMetrics: the
\* call writes its counts into the objects of rangeCounts
SALARY_BUCKETS_After(module, es, fs) ==
    IF NewRangeCounts(module).fresh THEN module
    ELSE Accumulate(InitialSums(module), filterEntriesForCalculations(es, fs)).rangeCounts

----------------------------------------------------------------------------
(* salary-service.ts: what a call leaves in the array it was given *)

\* entries.map(...) builds a new array, and { ...entry, ... } a new object for
\* each entry: no element and no field of the argument is written
detectOutliersLeaves(es) == es

\* let filteredEntries = [...entries], then filter: both give new arrays
filterEntriesForCalculationsLeaves(es, fs) == es

\* variant of computeMedianLeaves whose sort runs on the argument itself
computeMedianLeaves_Sorted(es) == SortedBySalary(es)

\* [...entries].sort(...): Array.prototype.sort orders the array it is called
\* on, which is the copy
computeMedianLeaves(es) == es

\* entries.forEach reads; the sort runs on Array.from(uniqueYears)
getAvailableYearsSinceGraduationLeaves(es) == es

\* the argument goes to filterEntriesForCalculations, and its copy
\* [...entries] is sorted for latestEntries
computeSalaryMetricsLeaves(es, fs) == filterEntriesForCalculationsLeaves(es, fs)

----------------------------------------------------------------------------
(* The query cycle over a bounded collection *)

\* the largest collection of the group scenarios
MaxEntries == 4
\* the largest collection of the limit scenarios
MaxLimitEntries == 1
\* the largest collection of the preference scenarios
MaxPrefEntries == 3

\* a row as the salaries table holds it, before its id and timestamp
Shape(formation, speciality, contractType, salary, participantType) ==
    [formation |-> formation, speciality |-> speciality,
     contract_type |-> contractType, salary |-> salary,
     participant_type |-> participantType, job_title |-> null,
     job_description |-> null, years_since_graduation |-> null,
     typeOf |-> [salary |-> "number", years_since_graduation |-> "null"],
     text |-> [salary |-> "", years_since_graduation |-> ""]]

\* one group at the relative thresholds of the medians 40,000 and 300,000, and
\* one row in each group that differs from it in one coordinate
GroupShapes ==
    {Shape("Master", "SSI", "CDI", s, "Alumni") :
        s \in {40000, 99999, 100000, 300000, 750000, 750001}}
    \cup {Shape("DIC", "SSI", "CDI", 40000, "Alumni"),
          Shape("Master", "IABD", "CDI", 2000001, "Alumni"),
          Shape("Master", "SSI", "Stage", 500001, "Alumni")}

\* every contract type at every absolute limit, and one contract type at every
\* histogram limit
LimitShapes ==
    {Shape("Master", "SSI", c, s, "Alumni") :
        c \in contractTypes,
        s \in {40000, 49999, 50000, 500000, 500001, 600000, 600001,
               1500000, 1500001, 2000000, 2000001}}
    \cup {Shape("DIC", "INFO", "CDI", s, "Etudiant") :
        s \in {99999, 100000, 199999, 200000, 299999, 300000, 399999, 400000,
               499999, 500000, 599999, 600000, 699999, 700000, 799999, 800000}}

\* the largest collection of the loosely typed scenarios
MaxRawEntries == 2
\* the largest collection of the store scenarios
MaxRemoteEntries == 2
\* the largest collection of the five-salary scenarios
MaxScenarioEntries == 5

\* one group of ordinary salaries and one salary nine times as large that
\* stays under the absolute ceiling
ScenarioShapes ==
    {Shape("Master", "SSI", "CDI", s, "Alumni") :
        s \in {200000, 210000, 190000, 205000, 1900000}}

\* a number, a text, null and undefined as values of a loosely typed column
Number(n) == [type |-> "number", number |-> n, text |-> ""]
Text(t) == [type |-> "string", number |-> 0, text |-> t]
Null == [type |-> "null", number |-> 0, text |-> ""]
Undefined == [type |-> "undefined", number |-> 0, text |-> ""]

\* a row whose salary and years_since_graduation arrive loosely typed
RawShape(salary, years) ==
    [Shape("Master", "SSI", "CDI", salary.number, "Alumni") EXCEPT
        !.years_since_graduation = IF years.type = "number" THEN <<years.number>> ELSE null,
        !.typeOf = [salary |-> salary.type, years_since_graduation |-> years.type],
        !.text = [salary |-> salary.text, years_since_graduation |-> years.text]]

\* a salary as a number, as a numeral and as a text that is no numeral, and
\* years as null, absent, a number (0 among them), a numeral, a text that is
\* no numeral and the empty text
RawShapes ==
    {RawShape(Number(100000), Null),
     RawShape(Number(100000), Number(0)),
     RawShape(Number(40000), Number(3)),
     RawShape(Text("250000"), Null),
     RawShape(Text("abc"), Null),
     RawShape(Number(100000), Undefined),
     RawShape(Number(100000), Number(5)),
     RawShape(Number(100000), Text("3")),
     RawShape(Number(100000), Text("abc")),
     RawShape(Number(100000), Text(""))}

\* rows over two formations, two specialties, three contract types and both
\* participant types, two of them flagged by an absolute rule
PrefShapes ==
    {Shape("Master", "SSI", "CDI", 99999, "Alumni"),
     Shape("Master", "SSI", "CDI", 100000, "Alumni"),
     Shape("DIC", "IABD", "CDI", 800000, "Etudiant"),
     Shape("DIC", "SSI", "Stage", 40000, "Etudiant"),
     Shape("Master", "IABD", "CDD", 2000001, "Alumni"),
     Shape("DIC", "SSI", "Stage", 250000, "Etudiant")}

\* the largest table of the query scenarios
MaxQueryEntries == 2

\* a row whose years_since_graduation column holds the number n
WithYears(shape, n) ==
    [shape EXCEPT !.years_since_graduation = <<n>>,
                  !.typeOf = [@ EXCEPT !.years_since_graduation = "number"]]

\* rows that differ in every column a query can constrain, with years of 3,
\* of 0 and null
QueryShapes ==
    {WithYears(Shape("Master", "SSI", "CDI", 100000, "Alumni"), 3),
     Shape("DIC", "IABD", "Stage", 40000, "Etudiant"),
     WithYears(Shape("Master", "IABD", "CDI", 300000, "Alumni"), 0)}

\* an optional key of an object: absent, or set to one of the values
Optional(key, values) == {<<>>} \cup {[k \in {key} |-> v] : v \in values}

\* SalaryFilters objects: each filter key absent or set, the years absent,
\* empty or not, the preferences absent or set
QueryFilters ==
    {f @@ c @@ sp @@ p @@ y @@ prefs :
        f \in Optional("formation", {"Master"}),
        c \in Optional("contractType", {"CDI"}),
        sp \in Optional("speciality", {"SSI"}),
        p \in Optional("participantType", participantTypes),
        y \in Optional("selectedYearsSinceGraduation", {{}, {3}, {0, 3}}),
        prefs \in {<<>>, [excludeOutliers |-> TRUE, excludeSpecificEntries |-> {}],
                   [excludeOutliers |-> FALSE, excludeSpecificEntries |-> {1}]}}

\* the rows as the table holds them: in the order of their insertion
OldestFirst(rs) == [i \in 1..Len(rs) |-> rs[Len(rs) + 1 - i]]

\* the store holds the rows as its table and reports no error
AnswersFromTable(rs) ==
    {[configured |-> TRUE, data |-> <<OldestFirst(rs)>>, error |-> null]}

\* the rows in the order the query returns them: newest first, ids unique
MkRows(shapes) ==
    [i \in 1..Len(shapes) |->
        [f \in DOMAIN shapes[i] \cup {"id", "created_at"} |->
            IF f = "id" THEN i
            ELSE IF f = "created_at" THEN Len(shapes) - i + 1
            ELSE shapes[i][f]]]

\* the preferences of StatsPage's initial state
DefaultPreferences ==
    {[excludeOutliers |-> TRUE, excludeSpecificEntries |-> {}]}

AllPreferences(ids) ==
    [excludeOutliers : BOOLEAN, excludeSpecificEntries : SUBSET ids]

\* the preferences that do not set the toggle: the default {} of
\* computeSalaryMetrics, and objects that hold an exclusion set only
UnsetPreferences(ids) ==
    {[k \in {} |-> TRUE]} \cup [excludeSpecificEntries : SUBSET ids]

\* the store answers with the rows and no error
AnswersWithData(rs) == {[configured |-> TRUE, data |-> <<rs>>, error |-> null]}

\* errors the remote query can report (a PostgrestError: message and code)
RemoteErrors ==
    {[message |-> "JWT expired", code |-> "PGRST301"],
     [message |-> "TypeError: Failed to fetch", code |-> ""]}

\* every state of the store: it answers with the rows, with no data and no
\* error, or with an error; or the client is not configured at all
AnyAnswer(rs) ==
    AnswersWithData(rs)
    \cup {[configured |-> TRUE, data |-> null, error |-> null]}
    \cup {[configured |-> TRUE, data |-> null, error |-> <<e>>] : e \in RemoteErrors}
    \cup {[configured |-> FALSE, data |-> null, error |-> null]}

\* the orders of 1..n
Orders(n) == {p \in [1..n -> 1..n] : \A i, j \in 1..n : p[i] = p[j] => i = j}

\* the runtime's sort of an array that holds a NaN may leave it in any order:
\* one order for each length the rows allow
Engines(rs) ==
    IF \E i \in 1..Len(rs) : NormalizedSalary(rs[i]) = NaN
    THEN {e \in [2..Len(rs) -> UNION {Orders(n) : n \in 2..Len(rs)}] :
             \A n \in 2..Len(rs) : e[n] \in Orders(n)}
    ELSE {<<>>}

\* no array holds a NaN, and no order of the runtime's sort is consulted
NoEngine == {<<>>}

\* the largest table of the group-filter scenarios
MaxGroupFilterEntries == 4

\* one group with a salary above two and a half times another, and a row of
\* another formation, of another specialty and of another contract type
GroupFilterShapes ==
    {Shape("Master", "SSI", "CDI", 100000, "Alumni"),
     Shape("Master", "SSI", "CDI", 750001, "Alumni"),
     Shape("DIC", "SSI", "CDI", 40000, "Alumni"),
     Shape("Master", "IABD", "Stage", 100000, "Etudiant")}

\* the filters that constrain formation, specialty and contract type only,
\* with the preferences of the page's initial state
GroupFilters ==
    {f @@ sp @@ c @@ prefs :
        f \in Optional("formation", {"Master"}),
        sp \in Optional("speciality", {"SSI"}),
        c \in Optional("contractType", {"CDI"}),
        prefs \in DefaultPreferences}

InitWith(shapes, max, preferences, answers, engines) ==
    /\ \E n \in 0..max : \E f \in [1..n -> shapes] : rows = MkRows(f)
    /\ remote \in answers
    /\ engine \in engines
    /\ filters \in preferences
    /\ pc = "idle"
    /\ query = null
    /\ queries = 0
    /\ thrown = null
    /\ entries = <<>>
    /\ eligible = <<>>
    /\ metrics = undefined
    /\ medianSalary = 0
    /\ availableYears = <<>>
    /\ redetected = <<>>
    /\ buckets = SALARY_BUCKETS
    /\ calls = <<>>
    /\ effect = FALSE
    /\ clicked = null

InitOver(shapes, max, preferences) ==
    InitWith(shapes, max, preferences, AnswersWithData(rows), NoEngine)

Init == InitOver(GroupShapes, MaxEntries, DefaultPreferences)
InitLimits == InitOver(LimitShapes, MaxLimitEntries, AllPreferences(1..MaxLimitEntries))
InitPrefs == InitOver(PrefShapes, MaxPrefEntries, AllPreferences(1..MaxPrefEntries))
InitRaw ==
    InitWith(RawShapes, MaxRawEntries,
             [excludeOutliers : BOOLEAN, excludeSpecificEntries : SUBSET {1}],
             AnswersWithData(rows), Engines(rows))
InitRemote ==
    InitWith(PrefShapes, MaxRemoteEntries, DefaultPreferences, AnyAnswer(rows), NoEngine)
InitUnset == InitOver(PrefShapes, MaxPrefEntries, UnsetPreferences(1..MaxPrefEntries))
InitScenario == InitOver(ScenarioShapes, MaxScenarioEntries, DefaultPreferences)
InitGroupFilter ==
    InitWith(GroupFilterShapes, MaxGroupFilterEntries, GroupFilters,
             AnswersFromTable(rows), NoEngine)
InitQuery ==
    InitWith(QueryShapes, MaxQueryEntries, QueryFilters, AnswersFromTable(rows), NoEngine)

\* one call of fetchSalaryEntries: it throws, or returns the annotated entries
Fetch ==
    /\ pc = "idle"
    /\ \E outcome \in {fetchSalaryEntries(remote, filters)} :
           /\ query' = outcome.query
           /\ queries' = queries + outcome.queries
           /\ thrown' = outcome.thrown
           /\ IF outcome.thrown # null
              THEN pc' = "failed" /\ UNCHANGED entries
              ELSE pc' = "fetched" /\ entries' = outcome.returned[1]
    /\ UNCHANGED <<remote, rows, engine, filters, eligible, metrics, medianSalary,
                   availableYears, redetected, buckets, calls, effect, clicked>>

\* what a query cycle derives from the fetched entries and the preferences:
\* the eligible subset, the metrics, the median of the eligible subset and the
\* years; each array is left as the calls it was handed to leave it
Summarise ==
    /\ pc = "fetched"
    /\ \E kept \in {filterEntriesForCalculations(entries, filters)} :
           /\ eligible' = (IF Len(kept) # 0 THEN computeMedianLeaves(kept) ELSE kept)
           /\ medianSalary' = (IF Len(kept) # 0 THEN computeMedian(kept) ELSE 0)
    /\ metrics' = computeSalaryMetrics(entries, filters)
    /\ buckets' = SALARY_BUCKETS_After(buckets, entries, filters)
    /\ availableYears' = getAvailableYearsSinceGraduation(entries)
    /\ entries' = getAvailableYearsSinceGraduationLeaves(
                      computeSalaryMetricsLeaves(
                          filterEntriesForCalculationsLeaves(entries, filters), filters))
    /\ pc' = "summarised"
    /\ UNCHANGED <<remote, rows, engine, filters, query, queries, thrown, redetected,
                   calls, effect, clicked>>

\* the annotations the entries carry into a second detection pass: their own,
\* a flag with some reason, or a cleared flag
Reannotated(es, how) ==
    [i \in 1..Len(es) |->
        CASE how = "flag" -> Spread(es[i], TRUE, <<"Valeur trop faible (< # F)", 1>>)
          [] how = "clear" -> Spread(es[i], FALSE, undefined)
          [] OTHER -> es[i]]

\* a second detection pass over entries that are already annotated: over the
\* entries themselves, or over a copy annotated otherwise
Redetect ==
    /\ pc = "summarised"
    /\ \E how \in {"keep", "flag", "clear"} :
           /\ redetected' = detectOutliers(Reannotated(entries, how))
           /\ entries' = (IF how = "keep" THEN detectOutliersLeaves(entries) ELSE entries)
    /\ pc' = "done"
    /\ UNCHANGED <<remote, rows, engine, filters, query, queries, thrown, eligible,
                   metrics, medianSalary, availableYears, buckets, calls, effect,
                   clicked>>

Next == Fetch \/ Summarise \/ Redetect

----------------------------------------------------------------------------
(* Concurrent invocations of StatsPage's queryFn *)

\* the most invocations of queryFn in flight or returned
MaxCalls == 2
\* the largest table of the invocation scenarios
MaxCallEntries == 2

\* rows of two formations, one of them flagged by the floor
CallShapes ==
    {Shape("Master", "SSI", "CDI", 100000, "Alumni"),
     Shape("DIC", "SSI", "Stage", 40000, "Etudiant"),
     Shape("Master", "IABD", "CDD", 800000, "Alumni")}

\* the filters of an invocation: the initial preferences, flagged entries
\* included, and one formation only
CallFilters ==
    {[excludeOutliers |-> TRUE, excludeSpecificEntries |-> {}],
     [excludeOutliers |-> FALSE, excludeSpecificEntries |-> {}],
     [formation |-> "Master", excludeOutliers |-> TRUE, excludeSpecificEntries |-> {}]}

\* every state of the store over its table: it answers from the table, with
\* no data, or with an error; or the client is not configured
AnyAnswerFromTable(rs) ==
    AnswersFromTable(rs) \cup (AnyAnswer(rs) \ AnswersWithData(rs))

\* queryFn is invoked with the filters of its query key and runs up to the
\* await of the remote query; without a client fetchSalaryEntries has thrown
QueryFnCalled ==
    /\ Len(calls) < MaxCalls
    /\ \E fs \in CallFilters :
           IF remote.configured
           THEN /\ calls' = Append(calls, [filters |-> fs, pc |-> "awaiting",
                                           entries |-> <<>>, metrics |-> undefined])
                /\ queries' = queries + 1
           ELSE /\ calls' = Append(calls, [filters |-> fs, pc |-> "failed",
                                           entries |-> <<>>, metrics |-> undefined])
                /\ UNCHANGED queries
    /\ UNCHANGED <<remote, rows, engine, filters, pc, query, thrown, entries, eligible,
                   metrics, medianSalary, availableYears, redetected, buckets, effect,
                   clicked>>

\* the remote query of one invocation settles: fetchSalaryEntries throws, or
\* normalises and annotates the rows and returns them to queryFn
QueryFnFetched ==
    /\ \E c \in 1..Len(calls) :
           /\ calls[c].pc = "awaiting"
           /\ \E outcome \in {fetchSalaryEntries(remote, calls[c].filters)} :
                  calls' = [calls EXCEPT
                               ![c].pc = IF outcome.thrown # null THEN "failed" ELSE "fetched",
                               ![c].entries = IF outcome.thrown # null THEN <<>>
                                              ELSE outcome.returned[1]]
    /\ UNCHANGED <<remote, rows, engine, filters, pc, query, queries, thrown, entries,
                   eligible, metrics, medianSalary, availableYears, redetected, buckets,
                   effect, clicked>>

\* one invocation resumes after its await: computeSalaryMetrics(entries,
\* filters), then return { entries, metrics }
QueryFnReturned ==
    /\ \E c \in 1..Len(calls) :
           /\ calls[c].pc = "fetched"
           /\ calls' = [calls EXCEPT
                            ![c].pc = "returned",
                            ![c].metrics =
                                computeSalaryMetrics(calls[c].entries, calls[c].filters)]
           /\ buckets' = SALARY_BUCKETS_After(buckets, calls[c].entries, calls[c].filters)
    /\ UNCHANGED <<remote, rows, engine, filters, pc, query, queries, thrown, entries,
                   eligible, metrics, medianSalary, availableYears, redetected, effect,
                   clicked>>

NextCalls == QueryFnCalled \/ QueryFnFetched \/ QueryFnReturned

InitCalls ==
    InitWith(CallShapes, MaxCallEntries, DefaultPreferences, AnyAnswerFromTable(rows),
             NoEngine)

SpecCalls == InitCalls /\ [][NextCalls]_vars

----------------------------------------------------------------------------
(* StatsPage: what is rendered *)

\* StatsPage: (filteredEntriesForCalculations?.length ?? 0) > 0
hasData == Len(eligible) > 0

\* StatsPage renders the recent-entries card, one ContributionEntry for each
\* of metrics.latestEntries
ShowsRecentEntries ==
    /\ pc \in {"summarised", "done"}
    /\ hasData
    /\ Len(metrics.latestEntries) # 0

\* the isExcluded StatsPage passes to the ContributionEntry of an entry
isExcluded(entry) ==
    \/ ExcludesOutliers(filters) /\ IsFlagged(entry)
    \/ entry.id \in ExcludedIds(filters)

\* ContributionEntry renders its Inclure / Exclure button
ShowsToggleFor(entry) ==
    ShowsRecentEntries /\ (IsFlagged(entry) \/ isExcluded(entry))

----------------------------------------------------------------------------
(* StatsPage: the filters state, its handlers and its effect *)

\* the largest table behind the page, and the most remote queries the page
\* issues (its queries refetch on an interval and on every change of the key)
MaxPageEntries == 2
MaxPageQueries == 3

\* an alumni row, an alumni row the floor flags, and a student row
PageShapes ==
    {WithYears(Shape("Master", "SSI", "CDI", 100000, "Alumni"), 3),
     WithYears(Shape("Master", "IABD", "CDI", 40000, "Alumni"), 0),
     Shape("DIC", "SSI", "Stage", 300000, "Etudiant")}

\* useState's initial value
InitialFilters ==
    [participantType |-> "Alumni", selectedYearsSinceGraduation |-> {},
     excludeOutliers |-> TRUE, excludeSpecificEntries |-> {}]

\* const next = { ...prev }; delete next[key]
Delete(prev, key) == [k \in DOMAIN prev \ {key} |-> prev[k]]

\* const next = { ...prev }; next[key] = value
Assign(prev, key, value) ==
    [k \in DOMAIN prev \cup {key} |-> IF k = key THEN value ELSE prev[k]]

\* the keys a Select sets: only a Select hands "all" to handleFilterChange
SelectKeys == {"formation", "speciality", "contractType", "participantType"}

\* the updater handleFilterChange passes to setFilters
handleFilterChange(prev, key, value) ==
    IF key \in SelectKeys /\ value = "all"
    THEN Delete(prev, key)
    ELSE Assign(prev, key, value)

\* the updater handleToggleExcludeOutliers passes to setFilters
handleToggleExcludeOutliers(prev, exclude) == Assign(prev, "excludeOutliers", exclude)

\* the updater handleToggleSpecificEntry passes to setFilters
handleToggleSpecificEntry(prev, entryId, exclude) ==
    LET current == ExcludedIds(prev)
        newExclusions == IF exclude THEN current \cup {entryId}
                         ELSE current \ {entryId}
    IN  Assign(prev, "excludeSpecificEntries", newExclusions)

\* variant of the effect that leaves the selection of years in place
participantTypeEffect_Keeps(prev) == prev

\* the effect on filters.participantType: the filters it leaves
participantTypeEffect(prev) ==
    IF /\ IsSupplied(prev, "participantType")
       /\ prev.participantType # "Alumni"
       /\ Cardinality(SelectedYears(prev)) # 0
    THEN Delete(prev, "selectedYearsSinceGraduation")
    ELSE prev

\* filters.participantType, the dependency of the effect
participantTypeOf(fs) ==
    IF "participantType" \in DOMAIN fs THEN <<fs.participantType>> ELSE undefined

\* the trigger of the years popover is not disabled
YearsTriggerEnabled ==
    /\ ~(IsSupplied(filters, "participantType") /\ filters.participantType # "Alumni")
    /\ Len(availableYears) # 0

\* the memos over query.data.entries and filters
Memos(data, es, fs) ==
    LET kept == IF data THEN filterEntriesForCalculations(es, fs) ELSE <<>>
    IN  [filteredEntriesForCalculations |->
             IF Len(kept) # 0 THEN computeMedianLeaves(kept) ELSE kept,
         medianSalary |-> IF Len(kept) # 0 THEN computeMedian(kept) ELSE 0]

\* setFilters(updater) and the render that follows: the memos are computed
\* again over the data on display, which stays that of the last query result
SetFilters(next) ==
    /\ filters' = next
    /\ \E memo \in {Memos(pc # "idle", entries, next)} :
           /\ eligible' = memo.filteredEntriesForCalculations
           /\ medianSalary' = memo.medianSalary
    /\ UNCHANGED <<remote, rows, engine, pc, query, queries, thrown, entries, metrics,
                   availableYears, redetected, buckets, calls>>

\* a handler's setFilters: the effect is scheduled when filters.participantType
\* changed
HandlerSetFilters(next) ==
    /\ ~effect
    /\ SetFilters(next)
    /\ effect' = (participantTypeOf(next) # participantTypeOf(filters))

\* the all-alumni query settles and availableYears is computed from its data
LoadYears ==
    /\ queries < MaxPageQueries
    /\ \E outcome \in {fetchSalaryEntries(remote, [participantType |-> "Alumni"])} :
           /\ outcome.thrown = null
           /\ availableYears' = getAvailableYearsSinceGraduation(outcome.returned[1])
           /\ queries' = queries + outcome.queries
    /\ clicked' = null
    /\ UNCHANGED <<remote, rows, engine, filters, pc, query, thrown, entries, eligible,
                   metrics, medianSalary, redetected, buckets, calls, effect>>

\* the query of the key ["salaries", filters] settles: queryFn has fetched the
\* entries and computed the metrics, and the memos follow the new data
PageQuery ==
    /\ queries < MaxPageQueries
    /\ \E outcome \in {fetchSalaryEntries(remote, filters)} :
           /\ outcome.thrown = null
           /\ query' = outcome.query
           /\ queries' = queries + outcome.queries
           /\ entries' = outcome.returned[1]
           /\ metrics' = computeSalaryMetrics(outcome.returned[1], filters)
           /\ buckets' = SALARY_BUCKETS_After(buckets, outcome.returned[1], filters)
           /\ \E memo \in {Memos(TRUE, outcome.returned[1], filters)} :
                  /\ eligible' = memo.filteredEntriesForCalculations
                  /\ medianSalary' = memo.medianSalary
    /\ pc' = "summarised"
    /\ clicked' = null
    /\ UNCHANGED <<remote, rows, engine, filters, thrown, availableYears, redetected,
                   calls, effect>>

\* the Select of the participant type: onValueChange
SelectParticipantType ==
    /\ \E value \in {"all", "Alumni", "Etudiant"} :
           HandlerSetFilters(handleFilterChange(filters, "participantType", value))
    /\ clicked' = null

\* a year's button in the years popover
ToggleYear ==
    /\ YearsTriggerEnabled
    /\ \E y \in 1..Len(availableYears) :
           LET year == availableYears[y]
               current == SelectedYears(filters)
               isSelected == year \in current
               newSelection == IF isSelected THEN current \ {year}
                               ELSE current \cup {year}
           IN  HandlerSetFilters(handleFilterChange(filters,
                   "selectedYearsSinceGraduation", newSelection))
    /\ clicked' = null

\* the popover's "Tout" button
ClearYears ==
    /\ YearsTriggerEnabled
    /\ Cardinality(SelectedYears(filters)) # 0
    /\ HandlerSetFilters(handleFilterChange(filters, "selectedYearsSinceGraduation", {}))
    /\ clicked' = null

\* the popover's "Selectionner tout" button
SelectAllYears ==
    /\ YearsTriggerEnabled
    /\ ~(/\ "selectedYearsSinceGraduation" \in DOMAIN filters
         /\ Cardinality(SelectedYears(filters)) = Len(availableYears))
    /\ HandlerSetFilters(handleFilterChange(filters, "selectedYearsSinceGraduation",
           {availableYears[y] : y \in 1..Len(availableYears)}))
    /\ clicked' = null

\* the "Inclure suspects" / "Exclure suspects" button of the recent-entries card
ToggleExcludeOutliers ==
    /\ ShowsRecentEntries
    /\ \E k \in 1..Len(metrics.latestEntries) : IsFlagged(metrics.latestEntries[k])
    /\ HandlerSetFilters(handleToggleExcludeOutliers(filters, ~ExcludesOutliers(filters)))
    /\ clicked' = null

\* the "Reinitialiser" button of the recent-entries card
ResetExclusions ==
    /\ ShowsRecentEntries
    /\ Cardinality(ExcludedIds(filters)) # 0
    /\ HandlerSetFilters(handleFilterChange(filters, "excludeSpecificEntries", {}))
    /\ clicked' = null

\* the Inclure / Exclure button of one ContributionEntry:
\* onToggleExclusion(entry.id, !isExcluded)
ToggleSpecificEntry ==
    /\ ShowsRecentEntries
    /\ \E k \in 1..Len(metrics.latestEntries) :
           LET entry == metrics.latestEntries[k]
           IN  /\ ShowsToggleFor(entry)
               /\ HandlerSetFilters(handleToggleSpecificEntry(filters, entry.id,
                                                              ~isExcluded(entry)))
               /\ clicked' = <<[entryId |-> entry.id, exclude |-> ~isExcluded(entry)]>>

\* the pending effect runs, with the filters of the render that scheduled it
RunEffect ==
    /\ effect
    /\ SetFilters(participantTypeEffect(filters))
    /\ effect' = FALSE
    /\ clicked' = null

NextPage ==
    \/ LoadYears
    \/ PageQuery
    \/ SelectParticipantType
    \/ ToggleYear
    \/ ClearYears
    \/ SelectAllYears
    \/ ToggleExcludeOutliers
    \/ ResetExclusions
    \/ ToggleSpecificEntry
    \/ RunEffect

\* the page is mounted: nothing is fetched yet, and the effect of the first
\* render has run (it leaves the initial filters as they are)
InitPage ==
    InitWith(PageShapes, MaxPageEntries, {InitialFilters}, AnswersFromTable(rows),
                NoEngine)

SpecPage == InitPage /\ [][NextPage]_vars

Spec == Init /\ [][Next]_vars
SpecLimits == InitLimits /\ [][Next]_vars
SpecPrefs == InitPrefs /\ [][Next]_vars
SpecRaw == InitRaw /\ [][Next]_vars
SpecRemote == InitRemote /\ [][Next]_vars
SpecUnset == InitUnset /\ [][Next]_vars
SpecScenario == InitScenario /\ [][Next]_vars
SpecQuery == InitQuery /\ [][Next]_vars
SpecGroupFilter == InitGroupFilter /\ [][Next]_vars

----------------------------------------------------------------------------
(* Reference notions the properties are stated with *)

\* the contract-specific ceilings as the design states them
StatedCeiling(contractType) ==
    CASE contractType = "Stage" -> 500000
      [] contractType = "Alternance" -> 600000
      [] contractType = "CDD" -> 1500000
      [] contractType = "CDI" -> 2000000
      [] contractType = "Prestation de service" -> 2000000

FloorReason == <<"Valeur trop faible (< # F)", 50000>>
CeilingReason == <<"Valeur trop elevee (> # F)", 2000000>>
ContractReason(contractType) ==
    <<"Valeur improbable pour un # (> # F)", contractType, StatedCeiling(contractType)>>
TooLowReason(m) == <<"Tres en-dessous de la mediane du groupe (# F)", m>>
TooHighReason(m) == <<"Tres au-dessus de la mediane du groupe (# F)", m>>

BelowFloor(r) == r.salary < 50000
AboveCeiling(r) == r.salary > 2000000
AboveContractCeiling(r) == r.salary > StatedCeiling(r.contract_type)
ViolatesAbsolute(r) == BelowFloor(r) \/ AboveCeiling(r) \/ AboveContractCeiling(r)

\* the indices of the records of rs that share the triple of rs[i]
GroupOf(rs, i) ==
    {j \in 1..Len(rs) :
        /\ rs[j].formation = rs[i].formation
        /\ rs[j].speciality = rs[i].speciality
        /\ rs[j].contract_type = rs[i].contract_type}

\* the k-th smallest salary among the records of rs at the indices idx
KthSalary(rs, idx, k) ==
    CHOOSE v \in {rs[j].salary : j \in idx} :
        /\ Cardinality({j \in idx : rs[j].salary < v}) < k
        /\ Cardinality({j \in idx : rs[j].salary <= v}) >= k

\* the statistical median of the salaries at idx, a half rounded up; 0 for none
StandardMedian(rs, idx) ==
    LET n == Cardinality(idx)
    IN  IF n = 0 THEN 0
        ELSE IF n % 2 = 1 THEN KthSalary(rs, idx, (n + 1) \div 2)
        ELSE LET lo == KthSalary(rs, idx, n \div 2)
                 hi == KthSalary(rs, idx, n \div 2 + 1)
                 half == (lo + hi) \div 2
             IN  CHOOSE m \in {half, half + 1} : 2 * m = lo + hi \/ 2 * m = lo + hi + 1

\* the indices of the entries the preferences keep for the calculations
EligibleIndices ==
    {i \in 1..Len(entries) :
        /\ ~(filters.excludeOutliers /\ entries[i].is_flagged_outlier)
        /\ entries[i].id \notin filters.excludeSpecificEntries}

\* the histogram bucket (1..9) whose stated range holds the salary
StatedBucket(salary) ==
    IF salary < 100000 THEN 1
    ELSE IF salary >= 800000 THEN 9
    ELSE salary \div 100000 + 1

RECURSIVE SumOver(_, _)
\* the sum of the salaries of the entries at the indices idx
SumOver(es, idx) ==
    IF idx = {} THEN 0
    ELSE LET i == CHOOSE i \in idx : TRUE
         IN  es[i].salary + SumOver(es, idx \ {i})

\* a is total / count rounded to the nearest integer, a half going up
IsRoundedAverage(a, total, count) ==
    /\ 2 * a * count - 2 * total <= count
    /\ 2 * a * count - 2 * total > -count

Reverse(s) == [i \in 1..Len(s) |-> s[Len(s) + 1 - i]]

----------------------------------------------------------------------------
(* Properties *)

\* C1: a record whose salary violates an absolute rule is flagged with the
\* reason of an absolute rule it violates, never with a group-relative reason,
\* whatever its group holds; below 50,000 the reason is the floor reason.
AbsoluteRulePrevails ==
    pc = "fetched" =>
        \A i \in 1..Len(rows) :
            ViolatesAbsolute(rows[i]) =>
                /\ entries[i].is_flagged_outlier = TRUE
                /\ \/ BelowFloor(rows[i]) /\ entries[i].outlier_reason = FloorReason
                   \/ AboveCeiling(rows[i]) /\ entries[i].outlier_reason = CeilingReason
                   \/ /\ AboveContractCeiling(rows[i])
                      /\ entries[i].outlier_reason = ContractReason(rows[i].contract_type)
                /\ (rows[i].salary = 40000 => entries[i].outlier_reason = FloorReason)

\* a 40,000 record inside a group of three whose median would flag it too low
AbsoluteRulePrevailsWitness ==
    /\ pc = "fetched"
    /\ \E i \in 1..Len(rows) :
           /\ rows[i].salary = 40000
           /\ Cardinality(GroupOf(rows, i)) >= 3
           /\ 3 * rows[i].salary < StandardMedian(rows, GroupOf(rows, i))
           /\ entries[i].outlier_reason = FloorReason

\* C2: the eligible subset holds exactly the entries that are not (flagged
\* while outliers are excluded) and not explicitly excluded, in their original
\* order, and the two filters give the same result in either order.
ExclusionComposition ==
    pc = "summarised" =>
        /\ {eligible[k].id : k \in 1..Len(eligible)} =
               {entries[i].id : i \in EligibleIndices}
        /\ Len(eligible) = Cardinality(EligibleIndices)
        /\ \A k \in 1..Len(eligible) : eligible[k] = entries[eligible[k].id]
        /\ \A k \in 1..Len(eligible) - 1 : eligible[k].id < eligible[k + 1].id
        /\ filterOutliers(filterSpecific(entries, filters), filters) = eligible
        /\ filterSpecific(filterOutliers(entries, filters), filters) = eligible

\* outliers are kept, and one flagged and one unflagged entry are both removed
\* by the explicit exclusion while a third entry stays
ExclusionCompositionWitness ==
    /\ pc = "summarised"
    /\ ~filters.excludeOutliers
    /\ \E i, j, k \in 1..Len(entries) :
           /\ entries[i].is_flagged_outlier /\ entries[i].id \in filters.excludeSpecificEntries
           /\ ~entries[j].is_flagged_outlier /\ entries[j].id \in filters.excludeSpecificEntries
           /\ entries[k].is_flagged_outlier /\ entries[k].id \notin filters.excludeSpecificEntries
           /\ eligible = <<entries[k]>>

GroupAverageIs(reported, idx) ==
    IsRoundedAverage(reported, SumOver(entries, idx), Cardinality(idx))

\* C4: every grouping reports, for exactly the groups with an eligible member,
\* the rounded quotient of the group's salary sum by its count; the cross-tab
\* has one row for each pair with an eligible member and no pair twice.
AveragesAreRoundedQuotients ==
    pc = "summarised" =>
        LET E == EligibleIndices
            crossTab == metrics.averageBySpecialtyAndFormation
        IN  /\ DOMAIN metrics.averageByFormation = {entries[i].formation : i \in E}
            /\ \A f \in DOMAIN metrics.averageByFormation :
                   GroupAverageIs(metrics.averageByFormation[f],
                                  {i \in E : entries[i].formation = f})
            /\ DOMAIN metrics.averageBySpecialty = {entries[i].speciality : i \in E}
            /\ \A sp \in DOMAIN metrics.averageBySpecialty :
                   GroupAverageIs(metrics.averageBySpecialty[sp],
                                  {i \in E : entries[i].speciality = sp})
            /\ DOMAIN metrics.averageByContract = {entries[i].contract_type : i \in E}
            /\ \A c \in DOMAIN metrics.averageByContract :
                   GroupAverageIs(metrics.averageByContract[c],
                                  {i \in E : entries[i].contract_type = c})
            /\ {<<crossTab[k].speciality, crossTab[k].formation>> :
                    k \in 1..Len(crossTab)} =
               {<<entries[i].speciality, entries[i].formation>> : i \in E}
            /\ \A k, l \in 1..Len(crossTab) :
                   (/\ crossTab[k].speciality = crossTab[l].speciality
                    /\ crossTab[k].formation = crossTab[l].formation) => k = l
            /\ \A k \in 1..Len(crossTab) :
                   GroupAverageIs(crossTab[k].averageSalary,
                                  {i \in E : /\ entries[i].speciality = crossTab[k].speciality
                                             /\ entries[i].formation = crossTab[k].formation})

\* a group whose quotient ends in a half is rounded up, while another group
\* has no eligible member and no entry
AveragesAreRoundedQuotientsWitness ==
    /\ pc = "summarised"
    /\ Cardinality(EligibleIndices) = 2
    /\ Len(entries) = 3
    /\ SumOver(entries, EligibleIndices) = 199999
    /\ metrics.averageByFormation = [f \in {"Master"} |-> 100000]
    /\ \E i \in 1..Len(entries) : entries[i].formation = "DIC"

\* C5: a second detection pass over annotated entries, whatever annotations
\* they carry, yields the flags and reasons of the first pass.
DetectionIsIdempotent ==
    pc = "done" =>
        /\ Len(redetected) = Len(entries)
        /\ \A i \in 1..Len(entries) :
               /\ redetected[i].is_flagged_outlier = entries[i].is_flagged_outlier
               /\ redetected[i].outlier_reason = entries[i].outlier_reason

\* the second pass ran over a set with a relative flag and an unflagged entry
DetectionIsIdempotentWitness ==
    /\ pc = "done"
    /\ \E i, j \in 1..Len(entries) :
           /\ entries[i].is_flagged_outlier
           /\ ~ViolatesAbsolute(rows[i])
           /\ redetected[i].is_flagged_outlier
           /\ ~entries[j].is_flagged_outlier
           /\ ~redetected[j].is_flagged_outlier

\* C6: with a valid group median M, a record the absolute rules pass is
\* flagged too low exactly when salary < M / 3, too high exactly when
\* salary > 2.5 M, and not flagged in between (the thresholds included); the
\* reason cites M.
RelativeThresholds ==
    pc = "fetched" =>
        \A i \in 1..Len(rows) :
            LET M == calculateGroupMedian(rows, rows[i].formation,
                                          rows[i].speciality, rows[i].contract_type)
                s == rows[i].salary
            IN  (~ViolatesAbsolute(rows[i]) /\ M # null) =>
                    /\ 3 * s < M[1] =>
                           /\ entries[i].is_flagged_outlier = TRUE
                           /\ entries[i].outlier_reason = TooLowReason(M[1])
                    /\ 2 * s > 5 * M[1] =>
                           /\ entries[i].is_flagged_outlier = TRUE
                           /\ entries[i].outlier_reason = TooHighReason(M[1])
                    /\ (3 * s >= M[1] /\ 2 * s <= 5 * M[1]) =>
                           /\ entries[i].is_flagged_outlier = FALSE
                           /\ entries[i].outlier_reason = undefined

\* a group of median 300,000 with a member exactly at M / 3 left unflagged and
\* a member just above 2.5 M flagged too high
RelativeThresholdsWitness ==
    /\ pc = "fetched"
    /\ \E i, j \in 1..Len(rows) :
           /\ GroupOf(rows, i) = GroupOf(rows, j)
           /\ StandardMedian(rows, GroupOf(rows, i)) = 300000
           /\ Cardinality(GroupOf(rows, i)) >= 3
           /\ rows[i].salary = 100000
           /\ ~entries[i].is_flagged_outlier
           /\ rows[j].salary = 750001
           /\ entries[j].outlier_reason = TooHighReason(300000)

\* C7: a record whose group has fewer than 3 members is flagged if and only
\* if it violates an absolute rule.
SmallGroupsOnlyAbsolute ==
    pc = "fetched" =>
        \A i \in 1..Len(rows) :
            Cardinality(GroupOf(rows, i)) < 3 =>
                (entries[i].is_flagged_outlier <=> ViolatesAbsolute(rows[i]))

\* a group of two far apart (99,999 and 750,001), neither flagged
SmallGroupsOnlyAbsoluteWitness ==
    /\ pc = "fetched"
    /\ \E i, j \in 1..Len(rows) :
           /\ GroupOf(rows, i) = {i, j}
           /\ rows[i].salary = 99999
           /\ rows[j].salary = 750001
           /\ ~entries[i].is_flagged_outlier
           /\ ~entries[j].is_flagged_outlier

\* C8: the relative check of a record uses the median and the size of the set
\* of all input records with its exact triple, absolute outliers included and
\* no other record: the record is flagged relatively exactly when that set has
\* at least 3 members and its median puts the salary outside [M / 3, 2.5 M],
\* and the reason cites that median.
GroupIsExactTriple ==
    pc = "fetched" =>
        \A i \in 1..Len(rows) :
            LET G == GroupOf(rows, i)
                M == StandardMedian(rows, G)
                s == rows[i].salary
            IN  ~ViolatesAbsolute(rows[i]) =>
                    /\ entries[i].is_flagged_outlier <=>
                           (Cardinality(G) >= 3 /\ (3 * s < M \/ 2 * s > 5 * M))
                    /\ entries[i].is_flagged_outlier =>
                           \/ entries[i].outlier_reason = TooLowReason(M)
                           \/ entries[i].outlier_reason = TooHighReason(M)

\* a group of three with two absolute outliers setting its median, beside a
\* record of another group
GroupIsExactTripleWitness ==
    /\ pc = "fetched"
    /\ \E i, j \in 1..Len(rows) :
           /\ j \notin GroupOf(rows, i)
           /\ Cardinality(GroupOf(rows, i)) = 3
           /\ Cardinality({k \in GroupOf(rows, i) : ViolatesAbsolute(rows[k])}) = 2
           /\ ~ViolatesAbsolute(rows[i])
           /\ entries[i].outlier_reason = TooHighReason(40000)

\* C9: the reason of an absolute flag is that of the first violated rule in
\* the order floor, global ceiling, contract ceiling, and a salary equal to a
\* limit is not flagged by that limit.
AbsoluteRuleOrder ==
    pc = "fetched" =>
        \A i \in 1..Len(rows) :
            LET r == rows[i]
                reason == entries[i].outlier_reason
            IN  /\ BelowFloor(r) => reason = FloorReason
                /\ (~BelowFloor(r) /\ AboveCeiling(r)) => reason = CeilingReason
                /\ (~BelowFloor(r) /\ ~AboveCeiling(r) /\ AboveContractCeiling(r)) =>
                       reason = ContractReason(r.contract_type)
                /\ r.salary = 50000 => reason # FloorReason
                /\ r.salary = 2000000 => reason # CeilingReason
                /\ r.salary = StatedCeiling(r.contract_type) =>
                       reason # ContractReason(r.contract_type)

\* a Stage record above 2,000,000 carries the global-ceiling reason
AbsoluteRuleOrderWitness ==
    /\ pc = "fetched"
    /\ \E i \in 1..Len(rows) :
           /\ rows[i].contract_type = "Stage"
           /\ rows[i].salary > 2000000
           /\ entries[i].is_flagged_outlier
           /\ entries[i].outlier_reason = CeilingReason

\* C10: computeMedian gives 0 for no record and otherwise the statistical
\* median of the salaries, the mean of the two middle ones rounded half up for
\* an even count, whatever the order of the records.
MedianIsStandard ==
    pc = "summarised" =>
        /\ medianSalary = StandardMedian(eligible, 1..Len(eligible))
        /\ computeMedian(Reverse(eligible)) = medianSalary
        /\ Len(eligible) = 0 => medianSalary = 0

\* two records in descending order whose mean ends in a half
MedianIsStandardWitness ==
    /\ pc = "summarised"
    /\ Len(eligible) = 2
    /\ eligible[1].salary = 100000
    /\ eligible[2].salary = 99999
    /\ medianSalary = 100000

----------------------------------------------------------------------------
(* The recent-entries list *)

\* the preferences one click away from fs: the toggle flipped, or one record
\* added to or taken from the explicit exclusion set
OneChangeFrom(fs) ==
    {[fs EXCEPT !.excludeOutliers = ~@]}
    \cup {[fs EXCEPT !.excludeSpecificEntries =
                IF i \in @ THEN @ \ {i} ELSE @ \cup {i}] : i \in 1..Len(entries)}

\* C11: latestEntries holds every annotated entry exactly once, excluded or
\* not, with its id, flag and reason, newest first, and is the same list under
\* every change of the toggle or of the exclusion set.
RecentEntriesAreAllEntries ==
    pc = "summarised" =>
        LET latest == metrics.latestEntries
        IN  /\ Len(latest) = Len(entries)
            /\ \A i \in 1..Len(entries) :
                   \E k \in 1..Len(latest) :
                       /\ latest[k].id = entries[i].id
                       /\ latest[k].is_flagged_outlier = entries[i].is_flagged_outlier
                       /\ latest[k].outlier_reason = entries[i].outlier_reason
                       /\ \A l \in 1..Len(latest) : latest[l].id = entries[i].id => l = k
            /\ \A k \in 1..(Len(latest) - 1) :
                   latest[k].created_at >= latest[k + 1].created_at
            /\ \A fs \in OneChangeFrom(filters) :
                   computeSalaryMetrics(entries, fs).latestEntries = latest

\* three entries of which one is flagged and excluded by the toggle, one is
\* excluded by id, and one is eligible
RecentEntriesAreAllEntriesWitness ==
    /\ pc = "summarised"
    /\ Len(entries) = 3
    /\ filters.excludeOutliers
    /\ \E i, j, k \in 1..Len(entries) :
           /\ entries[i].is_flagged_outlier
           /\ ~entries[j].is_flagged_outlier /\ j \in filters.excludeSpecificEntries
           /\ k \in EligibleIndices

----------------------------------------------------------------------------
(* The count maps *)

RECURSIVE SumOfCounts(_)
\* the sum of the values of a count map
SumOfCounts(map) ==
    IF DOMAIN map = {} THEN 0
    ELSE LET k == CHOOSE k \in DOMAIN map : TRUE
         IN  map[k] + SumOfCounts([j \in DOMAIN map \ {k} |-> map[j]])

\* map holds, for exactly the values field takes on eligible entries, the
\* number of eligible entries with that value
CountsEligibleBy(map, field) ==
    /\ DOMAIN map = {entries[i][field] : i \in EligibleIndices}
    /\ \A v \in DOMAIN map :
           map[v] = Cardinality({i \in EligibleIndices : entries[i][field] = v})

\* C14: totalParticipants is the size of the eligible subset; the counts by
\* formation, by specialty and by participant type are the numbers of
\* eligible entries with each value, and each map's counts add up to
\* totalParticipants.
CountsPartitionEligible ==
    pc = "summarised" =>
        /\ metrics.totalParticipants = Cardinality(EligibleIndices)
        /\ metrics.totalParticipants = Len(eligible)
        /\ CountsEligibleBy(metrics.countByFormation, "formation")
        /\ CountsEligibleBy(metrics.countBySpecialty, "speciality")
        /\ CountsEligibleBy(metrics.countByParticipantType, "participant_type")
        /\ SumOfCounts(metrics.countByFormation) = metrics.totalParticipants
        /\ SumOfCounts(metrics.countBySpecialty) = metrics.totalParticipants
        /\ SumOfCounts(metrics.countByParticipantType) = metrics.totalParticipants

\* two eligible entries share a formation while a third has another one, and
\* an excluded entry is left out of the counts
CountsPartitionEligibleWitness ==
    /\ pc = "summarised"
    /\ Len(entries) = 3
    /\ Cardinality(EligibleIndices) = 2
    /\ \E f \in DOMAIN metrics.countByFormation : metrics.countByFormation[f] = 2
    /\ Cardinality(DOMAIN metrics.countBySpecialty) = 2
    /\ metrics.totalParticipants = 2

----------------------------------------------------------------------------
(* The annotation fields *)

\* the flag is a boolean and the reason is there exactly when the flag is set
HasWellFormedAnnotation(e) ==
    /\ {"is_flagged_outlier", "outlier_reason"} \subseteq DOMAIN e
    /\ e.is_flagged_outlier \in BOOLEAN
    /\ (e.outlier_reason # undefined) <=> e.is_flagged_outlier

\* C15: every record detectOutliers returns carries a boolean flag and a
\* reason exactly when flagged, on a first pass over bare rows and on a second
\* pass over rows that already carry a flag and a reason.
AnnotationsAreWellFormed ==
    /\ pc = "fetched" => \A i \in 1..Len(entries) : HasWellFormedAnnotation(entries[i])
    /\ pc = "done" => \A i \in 1..Len(redetected) : HasWellFormedAnnotation(redetected[i])

\* the second pass ran over entries that all carried a flag and a reason, and
\* returned one of them unflagged and without a reason next to a flagged one
AnnotationsAreWellFormedWitness ==
    /\ pc = "done"
    /\ redetected = detectOutliers(Reannotated(entries, "flag"))
    /\ \E i, j \in 1..Len(redetected) :
           /\ Reannotated(entries, "flag")[i].outlier_reason # undefined
           /\ ~redetected[i].is_flagged_outlier
           /\ redetected[i].outlier_reason = undefined
           /\ redetected[j].is_flagged_outlier
           /\ redetected[j].outlier_reason # undefined

----------------------------------------------------------------------------
(* Five salaries of one group, one of them far above the others *)

\* the rows hold each of the five salaries once, in any order
IsFiveSalaryScenario ==
    /\ Len(rows) = 5
    /\ {rows[i].salary : i \in 1..Len(rows)} = {200000, 210000, 190000, 205000, 1900000}

\* C16: of five CDI / SSI / Master rows with salaries 200,000, 210,000,
\* 190,000, 205,000 and 1,900,000 the group median is 205,000; only the
\* 1,900,000 row is flagged, as far above the group median and not by an
\* absolute rule; with flagged rows excluded the Master average is 201,250
\* and totalParticipants is 4.
FiveSalaryScenario ==
    (pc = "summarised" /\ IsFiveSalaryScenario) =>
        /\ calculateGroupMedian(entries, "Master", "SSI", "CDI") = <<205000>>
        /\ StandardMedian(rows, 1..5) = 205000
        /\ \A i \in 1..5 :
               IF entries[i].salary = 1900000
               THEN /\ entries[i].is_flagged_outlier = TRUE
                    /\ entries[i].outlier_reason = TooHighReason(205000)
                    /\ entries[i].outlier_reason # CeilingReason
                    /\ ~ViolatesAbsolute(entries[i])
               ELSE /\ entries[i].is_flagged_outlier = FALSE
                    /\ entries[i].outlier_reason = undefined
        /\ filters.excludeOutliers
        /\ metrics.averageByFormation = [f \in {"Master"} |-> 201250]
        /\ metrics.totalParticipants = 4

\* the five rows in the order the scenario lists them, summarised
FiveSalaryScenarioWitness ==
    /\ pc = "summarised"
    /\ IsFiveSalaryScenario
    /\ [i \in 1..5 |-> rows[i].salary] = <<200000, 210000, 190000, 205000, 1900000>>
    /\ metrics.totalParticipants = 4
    /\ metrics.averageByFormation["Master"] = 201250

----------------------------------------------------------------------------
(* Preferences that leave the toggle unset *)

\* C13: under a preference set that does not set the exclude-flagged-outliers
\* toggle, the empty default included, no flagged entry is eligible and the
\* metrics count the unflagged, not explicitly excluded entries only.
UnsetToggleExcludesFlagged ==
    (pc = "summarised" /\ "excludeOutliers" \notin DOMAIN filters) =>
        /\ \A k \in 1..Len(eligible) : ~eligible[k].is_flagged_outlier
        /\ metrics.totalParticipants =
               Cardinality({i \in 1..Len(entries) :
                   /\ ~entries[i].is_flagged_outlier
                   /\ entries[i].id \notin ExcludedIds(filters)})

----------------------------------------------------------------------------
(* The outcome of a fetch *)

\* C18 as stated: every call issues one remote query; a remote error fails
\* the call with that very error, no entries and no detection pass; an answer
\* without error never fails the call, and is empty when there is no data.
FetchSurfacesRemoteError ==
    pc # "idle" =>
        /\ queries = 1
        /\ remote.error # null =>
               /\ pc = "failed"
               /\ thrown = remote.error
               /\ entries = <<>>
               /\ fetchSalaryEntries(remote, filters).detections = 0
        /\ (remote.configured /\ remote.error = null) =>
               /\ pc # "failed"
               /\ remote.data = null => entries = <<>>

\* C18, amended: with a configured client every call issues one remote query
\* and no second one; a remote error fails the call with a new error that
\* holds the remote error's message and nothing else of it, without entries
\* and without a detection pass; an answer without error returns one entry
\* for each row, none when there is no data.  Without a configured client the
\* call fails before any query.
FetchSurfacesRemoteMessage ==
    /\ queries <= 1
    /\ pc # "idle" =>
           IF ~remote.configured
           THEN pc = "failed" /\ queries = 0 /\ thrown # null /\ entries = <<>>
           ELSE /\ queries = 1
                /\ IF remote.error # null
                   THEN /\ pc = "failed"
                        /\ thrown = <<[message |-> remote.error[1].message]>>
                        /\ entries = <<>>
                        /\ fetchSalaryEntries(remote, filters).returned = null
                        /\ fetchSalaryEntries(remote, filters).detections = 0
                   ELSE /\ pc # "failed"
                        /\ thrown = null
                        /\ Len(entries) =
                               (IF remote.data = null THEN 0 ELSE Len(remote.data[1]))

\* the store holds two rows and the query reports an expired token: the call
\* has failed with that message after one query
FetchSurfacesRemoteMessageWitness ==
    /\ pc = "failed"
    /\ Len(rows) = 2
    /\ remote.error # null
    /\ remote.error[1].code = "PGRST301"
    /\ thrown[1].message = "JWT expired"
    /\ queries = 1

----------------------------------------------------------------------------
(* Loosely typed columns *)

\* the text is a decimal numeral
IsNumeral(text) == text \in {"0", "3", "250000"}

\* C19: every row's years_since_graduation becomes its number when the raw
\* value is a number or a numeral, null when it is null or absent, and null
\* for every other text ("abc", the empty text); a salary that is a number
\* or a numeral becomes its number; and no raw value makes the fetch fail.
LooseColumnsAreNormalized ==
    pc # "idle" =>
        /\ pc # "failed"
        /\ Len(entries) = Len(rows)
        /\ \A i \in 1..Len(rows) :
               LET type == rows[i].typeOf.years_since_graduation
                   text == rows[i].text.years_since_graduation
                   years == entries[i].years_since_graduation
               IN  /\ type = "number" => years = rows[i].years_since_graduation
                   /\ (type = "string" /\ IsNumeral(text)) => years = <<Numerals[text]>>
                   /\ type \in {"null", "undefined"} => years = null
                   /\ (type = "string" /\ ~IsNumeral(text)) => years = null
                   /\ rows[i].typeOf.salary = "number" =>
                          entries[i].salary = rows[i].salary
                   /\ (rows[i].typeOf.salary = "string" /\ IsNumeral(rows[i].text.salary)) =>
                          entries[i].salary = Numerals[rows[i].text.salary]

\* the salary a record counts with: 0 when it is no number
CountedSalary(e) == IF e.salary = NaN THEN 0 ELSE e.salary

RECURSIVE SumOfCounted(_)
\* the sum of the counted salaries of the entries at the indices idx
SumOfCounted(idx) ==
    IF idx = {} THEN 0
    ELSE LET i == CHOOSE i \in idx : TRUE
         IN  CountedSalary(entries[i]) + SumOfCounted(idx \ {i})

\* map reports, for exactly the values field takes on eligible entries, the
\* rounded quotient of the counted salaries by the number of entries
AveragesCountedBy(map, field) ==
    /\ DOMAIN map = {entries[i][field] : i \in EligibleIndices}
    /\ \A v \in DOMAIN map :
           LET idx == {i \in EligibleIndices : entries[i][field] = v}
           IN  IsRoundedAverage(map[v], SumOfCounted(idx), Cardinality(idx))

\* C20: an eligible entry whose salary is no number does not stop
\* computeSalaryMetrics: it adds 0 to every sum, it is counted once in every
\* count and in totalParticipants, and it falls in the lowest bucket; every
\* aggregate is the one the entries give with that salary taken as 0.
NonNumericSalaryCountsAsZero ==
    pc = "summarised" =>
        LET E == EligibleIndices
            crossTab == metrics.averageBySpecialtyAndFormation
        IN  /\ metrics.totalParticipants = Cardinality(E)
            /\ CountsEligibleBy(metrics.countByFormation, "formation")
            /\ CountsEligibleBy(metrics.countBySpecialty, "speciality")
            /\ CountsEligibleBy(metrics.countByParticipantType, "participant_type")
            /\ AveragesCountedBy(metrics.averageByFormation, "formation")
            /\ AveragesCountedBy(metrics.averageBySpecialty, "speciality")
            /\ AveragesCountedBy(metrics.averageByContract, "contract_type")
            /\ Len(crossTab) = Cardinality({<<entries[i].speciality, entries[i].formation>> :
                                               i \in E})
            /\ \A k \in 1..Len(crossTab) :
                   LET idx == {i \in E : /\ entries[i].speciality = crossTab[k].speciality
                                          /\ entries[i].formation = crossTab[k].formation}
                   IN  /\ idx # {}
                       /\ IsRoundedAverage(crossTab[k].averageSalary,
                                           SumOfCounted(idx), Cardinality(idx))
            /\ \A b \in 1..9 :
                   metrics.salariesByRange[b].count =
                       Cardinality({i \in E : StatedBucket(CountedSalary(entries[i])) = b})
            /\ metrics.salariesByRange[1].count >=
                   Cardinality({i \in E : entries[i].salary = NaN})

\* an entry whose salary text is no numeral is eligible next to an entry of
\* 250,000: two participants, an average of 125,000, one entry in the lowest
\* bucket and one in the third
NonNumericSalaryCountsAsZeroWitness ==
    /\ pc = "summarised"
    /\ \E i, j \in EligibleIndices :
           /\ rows[i].text.salary = "abc"
           /\ entries[i].salary = NaN
           /\ entries[j].salary = 250000
    /\ metrics.totalParticipants = 2
    /\ metrics.averageByFormation["Master"] = 125000
    /\ metrics.salariesByRange[1].count = 1
    /\ metrics.salariesByRange[3].count = 1

----------------------------------------------------------------------------
(* Empty collections *)

\* the aggregates of no eligible entry
HasEmptyAggregates(m) ==
    /\ m.totalParticipants = 0
    /\ DOMAIN m.averageByFormation = {}
    /\ DOMAIN m.averageBySpecialty = {}
    /\ DOMAIN m.averageByContract = {}
    /\ DOMAIN m.countByFormation = {}
    /\ DOMAIN m.countBySpecialty = {}
    /\ DOMAIN m.countByParticipantType = {}
    /\ m.averageBySpecialtyAndFormation = <<>>
    /\ Len(m.salariesByRange) = 9
    /\ \A b \in 1..9 : m.salariesByRange[b].count = 0

\* C17: on the empty collection computeSalaryMetrics gives zero
\* participants, empty averages, counts and cross-tab, no recent entry and
\* nine buckets of count 0, computeMedian gives 0, and detectOutliers,
\* filterEntriesForCalculations and getAvailableYearsSinceGraduation give the
\* empty sequence; the aggregates are the same when the preferences exclude
\* every entry of a collection that is not empty.
EmptyCollectionIsAccepted ==
    /\ (pc # "idle" /\ Len(rows) = 0) => entries = <<>>
    /\ (pc = "summarised" /\ Len(entries) = 0) =>
           /\ HasEmptyAggregates(metrics)
           /\ metrics.latestEntries = <<>>
           /\ eligible = <<>>
           /\ availableYears = <<>>
           /\ computeMedian(entries) = 0
           /\ medianSalary = 0
    /\ (pc = "summarised" /\ EligibleIndices = {}) =>
           /\ HasEmptyAggregates(metrics)
           /\ eligible = <<>>
           /\ computeMedian(eligible) = 0
           /\ medianSalary = 0
    /\ (pc = "done" /\ Len(entries) = 0) => redetected = <<>>

\* the empty collection, summarised
EmptyCollectionIsAcceptedWitness ==
    /\ pc = "summarised"
    /\ rows = <<>>
    /\ metrics.totalParticipants = 0
    /\ Len(metrics.salariesByRange) = 9

\* a collection of three entries that the preferences exclude one and all
EveryEntryExcluded ==
    /\ pc = "summarised"
    /\ Len(entries) = 3
    /\ EligibleIndices = {}
    /\ Len(metrics.latestEntries) = 3

----------------------------------------------------------------------------
(* The recent-entries card of the dashboard *)

\* C12: whenever the fetched entries are not empty the dashboard shows the
\* recent-entries list with every annotated entry, and every excluded entry
\* has its control to include it again, also when the preferences exclude
\* every fetched entry.
RecentEntriesAlwaysShown ==
    (pc \in {"summarised", "done"} /\ Len(entries) > 0) =>
        /\ ShowsRecentEntries
        /\ Len(metrics.latestEntries) = Len(entries)
        /\ \A i \in 1..Len(entries) : isExcluded(entries[i]) => ShowsToggleFor(entries[i])

----------------------------------------------------------------------------
(* C21: the query of a fetch *)

\* the column the design constrains for a filter key
StatedColumn(key) ==
    CASE key = "formation" -> "formation"
      [] key = "contractType" -> "contract_type"
      [] key = "speciality" -> "speciality"
      [] key = "participantType" -> "participant_type"

StatedEqualityKeys == {"formation", "contractType", "speciality", "participantType"}

\* a row matches the filters as the design states them: equal on every key the
\* filters supply, and of a selected year when years are selected
StatedMatch(row, fs) ==
    /\ \A key \in StatedEqualityKeys \cap DOMAIN fs : row[StatedColumn(key)] = fs[key]
    /\ ("selectedYearsSinceGraduation" \in DOMAIN fs
            /\ fs.selectedYearsSinceGraduation # {}) =>
           /\ row.years_since_graduation # null
           /\ row.years_since_graduation[1] \in fs.selectedYearsSinceGraduation

\* C21: the query a fetch awaits holds one equality constraint for each of
\* formation, contract type, specialty and participant type that the filters
\* supply and no other, a membership constraint on years_since_graduation
\* exactly when the filters hold a non-empty selection of years, and the order
\* created_at descending; the rows returned are those of the table that match
\* these constraints, newest first, whatever the exclusion preferences are (a
\* row with null years is returned when no year is selected).
QueryFollowsFilters ==
    pc \in {"fetched", "summarised", "done"} =>
        /\ query # null
        /\ query[1].eq =
               {<<StatedColumn(key), filters[key]>> :
                   key \in StatedEqualityKeys \cap DOMAIN filters}
        /\ Cardinality(query[1].eq) = Cardinality(StatedEqualityKeys \cap DOMAIN filters)
        /\ (query[1].in # null) <=>
               /\ "selectedYearsSinceGraduation" \in DOMAIN filters
               /\ filters.selectedYearsSinceGraduation # {}
        /\ query[1].in # null =>
               query[1].in[1] = [column |-> "years_since_graduation",
                                 values |-> filters.selectedYearsSinceGraduation]
        /\ query[1].order = [column |-> "created_at", ascending |-> FALSE]
        /\ [i \in 1..Len(entries) |-> entries[i].id] =
               [i \in 1..Len(SelectSeq(rows, LAMBDA row : StatedMatch(row, filters))) |->
                   SelectSeq(rows, LAMBDA row : StatedMatch(row, filters))[i].id]
        /\ \A i, j \in 1..Len(entries) :
               i < j => entries[i].created_at > entries[j].created_at

\* a fetch whose filters set a formation, a non-empty selection of years and
\* the exclusion of flagged rows returned a flagged row and left a row of the
\* table out
QueryFollowsFiltersWitness ==
    /\ pc = "fetched"
    /\ "formation" \in DOMAIN filters
    /\ "participantType" \notin DOMAIN filters
    /\ "selectedYearsSinceGraduation" \in DOMAIN filters
    /\ filters.selectedYearsSinceGraduation = {0, 3}
    /\ ExcludesOutliers(filters)
    /\ Len(entries) = 1
    /\ Len(rows) = 2
    /\ query[1].in # null

----------------------------------------------------------------------------
(* C22: the calls leave their arguments as they were *)

AnnotationFields == {"is_flagged_outlier", "outlier_reason"}

----------------------------------------------------------------------------
(* C23: no state is kept between calls *)

\* the histogram counts of a snapshot, summed
SumOfHistogram(m) ==
    LET RECURSIVE Upto(_)
        Upto(k) == IF k = 0 THEN 0 ELSE m.salariesByRange[k].count + Upto(k - 1)
    IN  Upto(Len(m.salariesByRange))

----------------------------------------------------------------------------
(* C24: a record at or above its group's average does not lower it *)

\* the three groupings of a snapshot: its map of averages and the field of an
\* entry that names the group
Groupings ==
    {[averages |-> "averageByFormation", field |-> "formation"],
     [averages |-> "averageBySpecialty", field |-> "speciality"],
     [averages |-> "averageByContract", field |-> "contract_type"]}

\* the eligible set without its i-th record
EligibleWithout(i) == SubSeq(eligible, 1, i - 1) \o SubSeq(eligible, i + 1, Len(eligible))

\* the snapshot of a set all of whose records are eligible
SnapshotOf(es) == computeSalaryMetricsIn(SALARY_BUCKETS, es, <<>>)

RECURSIVE SalarySum(_, _, _)
\* the sum of the salaries (NaN taken as 0) of the records of es whose field
\* holds value, and their number
SalarySum(es, field, value) ==
    IF Len(es) = 0 THEN [total |-> 0, count |-> 0]
    ELSE LET rest == SalarySum(Tail(es), field, value)
         IN  IF Head(es)[field] = value
             THEN [total |-> rest.total
                               + (IF Head(es).salary = NaN THEN 0 ELSE Head(es).salary),
                   count |-> rest.count + 1]
             ELSE rest

\* for every eligible set E + r of which r is a record whose salary is at
\* or above the average reported for its group over E, the average reported
\* for that group over E + r is not below the one reported over E
AveragesAreMonotone ==
    pc = "summarised" =>
        \A i \in 1..Len(eligible) : \A g \in Groupings :
            LET r == eligible[i]
                before == SnapshotOf(EligibleWithout(i))[g.averages]
                after == metrics[g.averages]
            IN  (/\ r[g.field] \in DOMAIN before
                 /\ r.salary # NaN
                 /\ r.salary >= before[r[g.field]]) =>
                    after[r[g.field]] >= before[r[g.field]]

\* C24 as stated: the averages are monotone, and every reported group average
\* equals the sum of the salaries of the group's eligible members divided by
\* their number.
AveragesAreExactQuotients ==
    /\ AveragesAreMonotone
    /\ pc = "summarised" =>
           \A g \in Groupings : \A v \in DOMAIN metrics[g.averages] :
               LET sum == SalarySum(eligible, g.field, v)
               IN  metrics[g.averages][v] * sum.count = sum.total

\* C24, amended: the averages are monotone, and every reported group average
\* equals the sum of the salaries of the group's eligible members divided by
\* their number and rounded to the nearest integer (a half going up), so that
\* it can be recomputed from the members.
AveragesAreMonotoneRoundedQuotients ==
    /\ AveragesAreMonotone
    /\ pc = "summarised" =>
           \A g \in Groupings : \A v \in DOMAIN metrics[g.averages] :
               LET sum == SalarySum(eligible, g.field, v)
               IN  /\ sum.count > 0
                   /\ 2 * sum.count * metrics[g.averages][v] <= 2 * sum.total + sum.count
                   /\ 2 * sum.count * metrics[g.averages][v] > 2 * sum.total - sum.count

\* an eligible set of three of which one record lies above the average of the
\* other two of its formation, that average being no whole quotient
AveragesAreMonotoneRoundedQuotientsWitness ==
    /\ pc = "summarised"
    /\ Len(eligible) = 3
    /\ \E i \in 1..3 :
           LET before == SnapshotOf(EligibleWithout(i)).averageByFormation
               sum == SalarySum(EligibleWithout(i), "formation", eligible[i].formation)
           IN  /\ eligible[i].formation \in DOMAIN before
               /\ sum.count = 2
               /\ sum.total % 2 = 1
               /\ eligible[i].salary > before[eligible[i].formation]
               /\ metrics.averageByFormation[eligible[i].formation]
                      > before[eligible[i].formation]

----------------------------------------------------------------------------
(* C25: the years a record set offers *)

\* C25: getAvailableYearsSinceGraduation returns the years_since_graduation
\* values of the records that are numbers, each once, in ascending order: a
\* record whose years are null adds nothing, and 0 is returned when a record
\* holds it.
YearsAreDistinctSorted ==
    pc \in {"summarised", "done"} =>
        /\ {availableYears[k] : k \in 1..Len(availableYears)} =
               {entries[i].years_since_graduation[1] :
                   i \in {j \in 1..Len(entries) : entries[j].years_since_graduation # null}}
        /\ \A k, l \in 1..Len(availableYears) :
               k < l => availableYears[k] < availableYears[l]

\* the years of a record set that holds the number 3 before the number 0
YearsAreDistinctSortedWitness ==
    /\ pc = "summarised"
    /\ Len(entries) = 2
    /\ entries[1].years_since_graduation = <<3>>
    /\ rows[2].typeOf.years_since_graduation = "number"
    /\ entries[2].years_since_graduation = <<0>>
    /\ availableYears = <<0, 3>>

----------------------------------------------------------------------------
(* C27: detection and a filter on the group's coordinates *)

\* what a fetch without any filter returns: the whole table, annotated
UnfilteredFetch == fetchSalaryEntries(remote, <<>>).returned[1]

\* C27: when the filters constrain formation, specialty and contract type
\* only, every record the fetch returns carries the flag and the reason that
\* the record of the same id carries when the whole table is fetched and
\* annotated.
DetectionCommutesWithGroupFilter ==
    (/\ pc = "fetched"
     /\ "participantType" \notin DOMAIN filters
     /\ SelectedYears(filters) = {}) =>
        \A whole \in {UnfilteredFetch} :
            \A i \in 1..Len(entries) :
                \E j \in 1..Len(whole) :
                    /\ whole[j].id = entries[i].id
                    /\ whole[j].is_flagged_outlier = entries[i].is_flagged_outlier
                    /\ whole[j].outlier_reason = entries[i].outlier_reason

\* a fetch of one formation returned a group of three with a relative flag and
\* left a row of the table out
DetectionCommutesWithGroupFilterWitness ==
    /\ pc = "fetched"
    /\ "formation" \in DOMAIN filters
    /\ "speciality" \notin DOMAIN filters
    /\ Len(rows) = 4
    /\ Len(entries) = 3
    /\ \E i \in 1..3 :
           /\ entries[i].is_flagged_outlier
           /\ entries[i].salary = 750001
           /\ entries[i].outlier_reason
                  = <<"Tres au-dessus de la mediane du groupe (# F)", 100000>>

----------------------------------------------------------------------------
(* C28: a group is never flagged as a whole by the relative heuristic *)

\* the group of entries[i] has at least three members, all of them with a
\* positive salary that no absolute limit rejects
IsPlausibleGroup(i) ==
    /\ Cardinality(GroupOf(entries, i)) >= 3
    /\ \A j \in GroupOf(entries, i) :
           /\ entries[j].salary > 0
           /\ ~ViolatesAbsolute(entries[j])

\* C28: after detectOutliers, every group of at least three records whose
\* salaries are all positive and within the absolute limits has at least one
\* member that is not flagged.
PlausibleGroupKeepsAMember ==
    pc = "fetched" =>
        \A i \in 1..Len(entries) :
            IsPlausibleGroup(i) =>
                \E j \in GroupOf(entries, i) : ~entries[j].is_flagged_outlier

\* a group of four within the absolute limits, two of its members flagged by
\* the relative heuristic and two kept
PlausibleGroupKeepsAMemberWitness ==
    /\ pc = "fetched"
    /\ Len(entries) = 4
    /\ IsPlausibleGroup(1)
    /\ Cardinality(GroupOf(entries, 1)) = 4
    /\ Cardinality({j \in 1..4 : entries[j].is_flagged_outlier}) = 2
    /\ \E j \in 1..4 : entries[j].outlier_reason = TooLowReason(425000)

----------------------------------------------------------------------------
(* C29: the contract ceiling of CDI and Prestation de service never decides *)

\* the reason is the one the contract-specific rule writes
IsContractCeilingReason(reason) ==
    /\ reason # undefined
    /\ reason[1] = "Valeur improbable pour un # (> # F)"

\* C29: no CDI or Prestation de service record carries the contract-ceiling
\* reason; a record that carries it is a Stage, an Alternance or a CDD.
ContractCeilingDecidesOnlyBelowGlobal ==
    pc = "fetched" =>
        \A i \in 1..Len(entries) :
            /\ entries[i].contract_type \in {"CDI", "Prestation de service"} =>
                   ~IsContractCeilingReason(entries[i].outlier_reason)
            /\ IsContractCeilingReason(entries[i].outlier_reason) =>
                   entries[i].contract_type \in {"Stage", "Alternance", "CDD"}

\* a CDI record above its contract ceiling of 2,000,000 is flagged, with the
\* reason of the global ceiling
ContractCeilingDecidesOnlyBelowGlobalWitness ==
    /\ pc = "fetched"
    /\ \E i \in 1..Len(entries) :
           /\ entries[i].contract_type = "CDI"
           /\ entries[i].salary > CONTRACT_LIMITS("CDI")[1]
           /\ entries[i].is_flagged_outlier
           /\ entries[i].outlier_reason = CeilingReason

----------------------------------------------------------------------------
(* C26: the Inclure / Exclure button of an entry *)

\* the ids of the entries the calculations run over
EligibleIds == {eligible[i].id : i \in 1..Len(eligible)}

\* C26: once the toggle of an entry of the recent-entries list has been
\* handled, the entry is in the eligible subset exactly when it was displayed
\* as excluded: the toggle flips the entry's eligibility.
ToggleFlipsEligibility ==
    clicked # null =>
        ((clicked[1].entryId \in EligibleIds) <=> ~clicked[1].exclude)

----------------------------------------------------------------------------
(* C30: years of seniority are selected for alumni only *)

\* C30: once the pending effect has run, a participant type other than Alumni
\* is never set together with a non-empty selection of years.
YearsOnlyWithAlumni ==
    ~effect =>
        ~(/\ IsSupplied(filters, "participantType")
          /\ filters.participantType # "Alumni"
          /\ SelectedYears(filters) # {})

\* both years had been on offer, the participant type is Etudiant and the
\* effect has removed the selection from the filters
YearsOnlyWithAlumniWitness ==
    /\ ~effect
    /\ Len(availableYears) = 2
    /\ IsSupplied(filters, "participantType")
    /\ filters.participantType = "Etudiant"
    /\ "selectedYearsSinceGraduation" \notin DOMAIN filters

====
